---- MODULE Spec2Model ----
(***************************************************************************)
(* StockLighthouse: the feature pipeline (backend/features) and the        *)
(* scoring engine (backend/scoring), modelled operation by operation.      *)
(*                                                                         *)
(* Each group of variables below is the state of one operation of the      *)
(* repository; each operation has its own specification, in which the      *)
(* other groups stay idle.  Real numbers are exact: a table cell is an     *)
(* fraction <<numerator, denominator>> with a positive denominator, and    *)
(* the missing value NaN is the pair <<0, 0>>.                             *)
(***************************************************************************)
EXTENDS Integers, Sequences, FiniteSets, TLC

VARIABLES
    \* process_multi_ticker_data (normalize_pipeline.py)
    \* parquet: the files written so far, each a table
    data, output_path, pmPc, pmI, all_features, combined_df, parquet, logged,
    \* compute_weighted_score (sample_scoring.py)
    features, weights, invert_features, score, cwsPc,
    \* get_top_k_with_explanations (sample_scoring.py)
    topDf, topK, topResult, topPc,
    \* apply_filters (sample_scoring.py)
    filtDf, filtArgs, filtResult, filtPc,
    \* ScoringService score stages (scoring_service.py)
    config, svcDf, svcPc,
    \* apply_corporate_actions (normalize_pipeline.py)
    caDf, caActions, caResult, caPc,
    \* handle_missing_data (normalize_pipeline.py)
    mdDf, method, limit, mdResult, mdWarned, mdPc,
    \* the indicator functions and compute_all_indicators (indicators.py)
    indFn, indDf, indPeriod, indResult, indError, indPc,
    \* normalize_and_generate_features (normalize_pipeline.py)
    prices_df, corporate_actions, fill_method, ngfFilled, ngfResult, ngfError, ngfPc,
    \* normalize_minmax, normalize_zscore (sample_scoring.py)
    normFn, normValues, clip_threshold, normResult, normPc,
    \* ScoringService.normalize_features (scoring_service.py)
    nfDf, feature_list, scoring_config, nfResult, nfPc,
    \* check_feature_coverage (normalize_pipeline.py)
    covDf, covThreshold, covResult, covPc,
    \* ScoringService.generate_explanations (scoring_service.py)
    expDf, top_k, explanations, expPc,
    \* YFinanceIngestor (yfinance_ingestor.py), PriceIngestor retry loop (price_ingest.py)
    cache_ttl_seconds, max_retries, initial_backoff, backoff_multiplier, cache, clock, request, fetchPos, tickers, fetched_count, cached_count, failed_count, response, fetched, called, retried, fetchCalls, ingPc

pmVars == <<data, output_path, pmPc, pmI, all_features, combined_df, parquet, logged>>

cwsVars == <<features, weights, invert_features, score, cwsPc>>

topVars == <<topDf, topK, topResult, topPc>>

filtVars == <<filtDf, filtArgs, filtResult, filtPc>>

svcVars == <<config, svcDf, svcPc>>

caVars == <<caDf, caActions, caResult, caPc>>
mdVars == <<mdDf, method, limit, mdResult, mdWarned, mdPc>>
indVars == <<indFn, indDf, indPeriod, indResult, indError, indPc>>
ngfVars == <<prices_df, corporate_actions, fill_method, ngfFilled, ngfResult, ngfError, ngfPc>>
normVars == <<normFn, normValues, clip_threshold, normResult, normPc>>
nfVars == <<nfDf, feature_list, scoring_config, nfResult, nfPc>>
covVars == <<covDf, covThreshold, covResult, covPc>>
expVars == <<expDf, top_k, explanations, expPc>>
ingVars == <<cache_ttl_seconds, max_retries, initial_backoff, backoff_multiplier, cache, clock, request, fetchPos, tickers, fetched_count, cached_count, failed_count, response, fetched, called, retried, fetchCalls, ingPc>>

\* the variables of the other operations, idle while one of them runs
pmOthers == <<cwsVars, topVars, filtVars, svcVars, caVars, mdVars, indVars, ngfVars, normVars, nfVars, covVars, expVars, ingVars>>
cwsOthers == <<pmVars, topVars, filtVars, svcVars, caVars, mdVars, indVars, ngfVars, normVars, nfVars, covVars, expVars, ingVars>>
topOthers == <<pmVars, cwsVars, filtVars, svcVars, caVars, mdVars, indVars, ngfVars, normVars, nfVars, covVars, expVars, ingVars>>
filtOthers == <<pmVars, cwsVars, topVars, svcVars, caVars, mdVars, indVars, ngfVars, normVars, nfVars, covVars, expVars, ingVars>>
svcOthers == <<pmVars, cwsVars, topVars, filtVars, caVars, mdVars, indVars, ngfVars, normVars, nfVars, covVars, expVars, ingVars>>
caOthers == <<pmVars, cwsVars, topVars, filtVars, svcVars, mdVars, indVars, ngfVars, normVars, nfVars, covVars, expVars, ingVars>>
mdOthers == <<pmVars, cwsVars, topVars, filtVars, svcVars, caVars, indVars, ngfVars, normVars, nfVars, covVars, expVars, ingVars>>
indOthers == <<pmVars, cwsVars, topVars, filtVars, svcVars, caVars, mdVars, ngfVars, normVars, nfVars, covVars, expVars, ingVars>>
ngfOthers == <<pmVars, cwsVars, topVars, filtVars, svcVars, caVars, mdVars, indVars, normVars, nfVars, covVars, expVars, ingVars>>
normOthers == <<pmVars, cwsVars, topVars, filtVars, svcVars, caVars, mdVars, indVars, ngfVars, nfVars, covVars, expVars, ingVars>>
nfOthers == <<pmVars, cwsVars, topVars, filtVars, svcVars, caVars, mdVars, indVars, ngfVars, normVars, covVars, expVars, ingVars>>
covOthers == <<pmVars, cwsVars, topVars, filtVars, svcVars, caVars, mdVars, indVars, ngfVars, normVars, nfVars, expVars, ingVars>>
expOthers == <<pmVars, cwsVars, topVars, filtVars, svcVars, caVars, mdVars, indVars, ngfVars, normVars, nfVars, covVars, ingVars>>
ingOthers == <<pmVars, cwsVars, topVars, filtVars, svcVars, caVars, mdVars, indVars, ngfVars, normVars, nfVars, covVars, expVars>>

vars == <<pmVars, cwsVars, topVars, filtVars, svcVars, caVars, mdVars, indVars, ngfVars, normVars, nfVars, covVars, expVars, ingVars>>

---------------------------------------------------------------------------
(* Generic helpers *)

\* Optional[...]: None, or a value x held as <<x>>
None == <<>>
Some(x) == <<x>>
Get(o) == o[1]
\* the missing value of a numeric column
NaN == <<0, 0>>
IsNaN(x) == x = NaN

RECURSIVE SeqsUpTo(_, _)
\* all sequences over S of length 0..n
SeqsUpTo(S, n) ==
    IF n = 0 THEN {<<>>}
    ELSE LET shorter == SeqsUpTo(S, n - 1)
         IN  shorter \cup {Append(s, x) : s \in {t \in shorter : Len(t) = n - 1}, x \in S}

Range(s) == {s[i] : i \in DOMAIN s}

IsInjective(s) == \A i, j \in DOMAIN s : s[i] = s[j] => i = j

RECURSIVE Concat(_)
\* pd.concat of a list of frames (row sequences), ignore_index=True
Concat(frames) ==
    IF frames = <<>> THEN <<>> ELSE Head(frames) \o Concat(Tail(frames))

Abs(x) == IF x < 0 THEN -x ELSE x

RECURSIVE Gcd(_, _)
Gcd(a, b) == IF b = 0 THEN a ELSE Gcd(b, a % b)

\* Exact fractions <<n, d>> in lowest terms, d > 0
Frac(n, d) ==
    LET g == Gcd(Abs(n), Abs(d))
    IN  IF d < 0 THEN <<(-n) \div g, (-d) \div g>> ELSE <<n \div g, d \div g>>
\* (common factors are divided out before multiplying, which keeps the
\* intermediate integers small)
FAdd(a, b) ==
    LET g == Gcd(Abs(a[2]), Abs(b[2]))
    IN  Frac(a[1] * (b[2] \div g) + b[1] * (a[2] \div g), (a[2] \div g) * b[2])
FSub(a, b) == FAdd(a, <<-b[1], b[2]>>)
FMul(a, b) ==
    LET g1 == Gcd(Abs(a[1]), Abs(b[2]))
        g2 == Gcd(Abs(b[1]), Abs(a[2]))
    IN  Frac((a[1] \div g1) * (b[1] \div g2), (a[2] \div g2) * (b[2] \div g1))
FDiv(a, b) ==
    IF b[1] = 0 THEN Frac(a[1] * b[2], 0)
    ELSE FMul(a, IF b[1] < 0 THEN <<-b[2], -b[1]>> ELSE <<b[2], b[1]>>)
Scale(a, b) ==
    IF Gcd(Abs(a[2]), Abs(b[2])) = 0 THEN 1 ELSE Gcd(Abs(a[2]), Abs(b[2]))
FEq(a, b) == a[1] * (b[2] \div Scale(a, b)) = b[1] * (a[2] \div Scale(a, b))
FLe(a, b) == a[1] * (b[2] \div Scale(a, b)) <= b[1] * (a[2] \div Scale(a, b))
FLt(a, b) == a[1] * (b[2] \div Scale(a, b)) < b[1] * (a[2] \div Scale(a, b))
FZero == <<0, 1>>
FOne == <<1, 1>>

\* IEEE 754 doubles beyond the fractions: the infinities, and the negative
\* zero <<0, -1>> (equal to zero, told apart only by a division)
PosInf == <<1, 0>>
NegInf == <<-1, 0>>
NegZero == <<0, -1>>
IsInf(x) == x[2] = 0 /\ x[1] # 0
IsFinite(x) == x[2] # 0
IsZero(x) == x[2] # 0 /\ x[1] = 0
Sign(x) == IF x[1] > 0 THEN 1 ELSE IF x[1] < 0 THEN -1
           ELSE IF x[2] < 0 THEN -1 ELSE 1

XNeg(a) ==
    IF IsNaN(a) THEN NaN
    ELSE IF IsZero(a) THEN <<0, -a[2]>>
    ELSE <<-a[1], a[2]>>
Signed(x, sign) == IF sign > 0 THEN x ELSE XNeg(x)
XAdd(a, b) ==
    IF IsNaN(a) \/ IsNaN(b) THEN NaN
    ELSE IF IsInf(a) THEN (IF IsInf(b) /\ b # a THEN NaN ELSE a)
    ELSE IF IsInf(b) THEN b
    ELSE IF IsZero(a) /\ IsZero(b) THEN (IF a = NegZero /\ b = NegZero THEN NegZero ELSE FZero)
    ELSE FAdd(Frac(a[1], a[2]), Frac(b[1], b[2]))
XSub(a, b) == XAdd(a, XNeg(b))
XMul(a, b) ==
    IF IsNaN(a) \/ IsNaN(b) THEN NaN
    ELSE IF IsInf(a) \/ IsInf(b)
         THEN (IF IsZero(a) \/ IsZero(b) THEN NaN ELSE Signed(PosInf, Sign(a) * Sign(b)))
    ELSE IF IsZero(a) \/ IsZero(b) THEN Signed(FZero, Sign(a) * Sign(b))
    ELSE FMul(a, b)
XDiv(a, b) ==
    IF IsNaN(a) \/ IsNaN(b) THEN NaN
    ELSE IF IsInf(a) THEN (IF IsInf(b) THEN NaN ELSE Signed(PosInf, Sign(a) * Sign(b)))
    ELSE IF IsInf(b) THEN Signed(FZero, Sign(a) * Sign(b))
    ELSE IF IsZero(b) THEN (IF IsZero(a) THEN NaN ELSE Signed(PosInf, Sign(a) * Sign(b)))
    ELSE IF IsZero(a) THEN Signed(FZero, Sign(a) * Sign(b))
    ELSE FDiv(a, b)
XAbs(a) == IF IsNaN(a) THEN NaN ELSE IF IsZero(a) THEN FZero ELSE <<Abs(a[1]), a[2]>>
\* comparisons: false whenever an operand is NaN
XLt(a, b) ==
    /\ ~IsNaN(a) /\ ~IsNaN(b) /\ a # b
    /\ IF IsInf(a) THEN a = NegInf
       ELSE IF IsInf(b) THEN b = PosInf
       ELSE FLt(Frac(a[1], a[2]), Frac(b[1], b[2]))
XEq(a, b) ==
    /\ ~IsNaN(a) /\ ~IsNaN(b)
    /\ IF IsInf(a) \/ IsInf(b) THEN a = b ELSE FEq(a, b)
XLe(a, b) == XLt(a, b) \/ XEq(a, b)

---------------------------------------------------------------------------
(* indicators.py: the names bound in the module                            *)

\* the module imports pandas only: the name np that momentum reads is not
\* bound, and reading it raises NameError
NpBound == FALSE

---------------------------------------------------------------------------
(* process_multi_ticker_data                                               *)

MaxTickers == 3
MaxDays == 2

Tickers == {"AAA", "BBB", "CCC"}
TickerOrd(t) == CASE t = "AAA" -> 1 [] t = "BBB" -> 2 [] t = "CCC" -> 3

OHLCV == {"open", "high", "low", "close", "volume"}

\* a ticker's price frame: its columns and its date index (ascending)
PriceFrames ==
    {[cols |-> c, dates |-> [i \in 1..n |-> i]] :
        c \in {OHLCV, OHLCV \ {"close"}}, n \in 0..MaxDays}

\* normalize_and_generate_features raises inside compute_all_indicators:
\* KeyError at df['close'] on a frame without the column, NameError in
\* momentum on any other frame
FeaturesRaise(frame) == "close" \notin frame.cols \/ ~NpBound

\* the feature frame of one ticker after 'ticker' is added and the index is
\* reset to the 'date' column: one row per row of the input frame
FeatureRows(ticker, frame) ==
    [i \in 1..Len(frame.dates) |-> [ticker |-> ticker, date |-> frame.dates[i]]]

RowBefore(a, b) ==
    \/ TickerOrd(a.ticker) < TickerOrd(b.ticker)
    \/ a.ticker = b.ticker /\ a.date < b.date

RECURSIVE InsertRow(_, _)
InsertRow(sorted, r) ==
    IF sorted = <<>> THEN <<r>>
    ELSE IF RowBefore(r, Head(sorted)) THEN <<r>> \o sorted
         ELSE <<Head(sorted)>> \o InsertRow(Tail(sorted), r)

RECURSIVE SortByTickerDate(_)
\* combined_df.sort_values(['ticker', 'date']): a stable sort on two keys
SortByTickerDate(rows) ==
    IF rows = <<>> THEN <<>>
    ELSE InsertRow(SortByTickerDate(SubSeq(rows, 1, Len(rows) - 1)), rows[Len(rows)])

PmInit ==
    /\ data \in {s \in SeqsUpTo(Tickers \X PriceFrames, MaxTickers) :
                    IsInjective([i \in DOMAIN s |-> s[i][1]])}
    /\ output_path \in {None, Some("features.parquet")}
    /\ pmPc = "loop"
    /\ pmI = 1
    /\ all_features = <<>>
    /\ combined_df = <<>>
    /\ parquet = <<>>
    /\ logged = {}

PmIdle ==
    /\ data = <<>> /\ output_path = None /\ pmPc = "idle" /\ pmI = 0
    /\ all_features = <<>> /\ combined_df = <<>> /\ parquet = <<>> /\ logged = {}

\* one iteration of the loop whose body completes (never enabled: see
\* FeaturesRaise)
ProcessTickerOk ==
    /\ pmPc = "loop" /\ pmI <= Len(data)
    /\ ~FeaturesRaise(data[pmI][2])
    /\ all_features' = Append(all_features, FeatureRows(data[pmI][1], data[pmI][2]))
    /\ pmI' = pmI + 1
    /\ UNCHANGED <<data, output_path, pmPc, combined_df, parquet, logged>>
    /\ UNCHANGED pmOthers

\* one iteration whose body raises: except Exception -> log, continue
ProcessTickerError ==
    /\ pmPc = "loop" /\ pmI <= Len(data)
    /\ FeaturesRaise(data[pmI][2])
    /\ logged' = logged \cup {data[pmI][1]}
    /\ pmI' = pmI + 1
    /\ UNCHANGED <<data, output_path, pmPc, all_features, combined_df, parquet>>
    /\ UNCHANGED pmOthers

\* mutant: with nothing appended an empty table is returned
ReturnNoTickers ==
    /\ pmPc = "loop" /\ pmI > Len(data)
    /\ all_features = <<>>
    /\ pmPc' = "returned"
    /\ parquet' = IF output_path # None THEN Append(parquet, <<>>) ELSE parquet
    /\ UNCHANGED <<data, output_path, pmI, all_features, combined_df, logged>>
    /\ UNCHANGED pmOthers

\* after the loop: nothing was appended -> ValueError
RaiseNoTickers ==
    /\ pmPc = "loop" /\ pmI > Len(data)
    /\ all_features = <<>>
    /\ pmPc' = "raised"
    /\ UNCHANGED <<data, output_path, pmI, all_features, combined_df, parquet, logged>>
    /\ UNCHANGED pmOthers

\* after the loop: concat, reorder columns, sort, save, return (never
\* enabled: nothing is ever appended)
CombineAndReturn ==
    /\ pmPc = "loop" /\ pmI > Len(data)
    /\ all_features # <<>>
    /\ LET sorted == SortByTickerDate(Concat(all_features))
       IN  /\ combined_df' = sorted
           /\ parquet' = IF output_path # None THEN Append(parquet, sorted) ELSE parquet
    /\ pmPc' = "returned"
    /\ UNCHANGED <<data, output_path, pmI, all_features, logged>>
    /\ UNCHANGED pmOthers

\* the steps the call can take
PmNext == ProcessTickerError \/ RaiseNoTickers

\* the tickers whose frame has the close column the indicators require,
\* and the tickers whose frame lacks it
GoodTickers == {i \in DOMAIN data : "close" \in data[i][2].cols}
BadTickers == {i \in DOMAIN data : "close" \notin data[i][2].cols}
\* the tickers whose processing has raised
Raised == {i \in DOMAIN data : data[i][1] \in logged}
PmFinished == pmPc \in {"returned", "raised"}

RowsOf(table, ticker) == {i \in DOMAIN table : table[i].ticker = ticker}

\* C1 as stated, the tickers that raise being those whose frame lacks the
\* close column: wherever they stand in the iteration order the loop visits
\* every ticker, logging and skipping those that raise, and the call returns
\* a table holding the rows of exactly the other tickers: every row of each
\* of them, and no row of a ticker that raised.
C1_FailureIsolated ==
    PmFinished =>
        /\ pmI = Len(data) + 1
        /\ logged = {data[i][1] : i \in BadTickers}
        /\ Len(all_features) = Cardinality(GoodTickers)
        /\ GoodTickers # {} =>
              /\ pmPc = "returned"
              /\ \A i \in BadTickers : RowsOf(combined_df, data[i][1]) = {}
              /\ \A i \in GoodTickers :
                    /\ Cardinality(RowsOf(combined_df, data[i][1])) = Len(data[i][2].dates)
                    /\ \A d \in Range(data[i][2].dates) :
                          \E r \in DOMAIN combined_df :
                              combined_df[r] = [ticker |-> data[i][1], date |-> d]

C22_SortedOneRowPerDate ==
    (PmFinished /\ GoodTickers # {}) =>
        /\ pmPc = "returned"
        /\ \A r \in 1..(Len(combined_df) - 1) :
              RowBefore(combined_df[r], combined_df[r + 1])
                 \/ combined_df[r] = combined_df[r + 1]
        /\ \A i \in GoodTickers : \A d \in Range(data[i][2].dates) :
              Cardinality({r \in DOMAIN combined_df :
                              combined_df[r] = [ticker |-> data[i][1], date |-> d]}) = 1
        /\ \A i \in GoodTickers :
              Cardinality(RowsOf(combined_df, data[i][1])) = Len(data[i][2].dates)

---------------------------------------------------------------------------
(* compute_weighted_score                                                  *)

CwsMaxRows == 2

FeatureNames == {"f1", "f2"}
\* normalized feature values: 0, 1/2, 1
Values01 == {<<0, 1>>, <<1, 2>>, <<1, 1>>}
\* weights: -0.5, 0, 0.4, 0.6, 1.5
WeightValues == {<<-5, 10>>, <<0, 10>>, <<4, 10>>, <<6, 10>>, <<15, 10>>}

CwsIdle ==
    /\ features = <<>> /\ weights = <<>> /\ invert_features = {}
    /\ score = <<>> /\ cwsPc = "idle"

\* features: name -> array; weights: name -> weight; all arrays of one length
CwsInit ==
    /\ \E n \in 1..CwsMaxRows : \E present \in SUBSET FeatureNames :
          features \in [present -> [1..n -> Values01]]
    /\ \E configured \in SUBSET FeatureNames : weights \in [configured -> WeightValues]
    /\ invert_features \in {{}, {"f2"}}
    /\ score = <<>>
    /\ cwsPc = "call"

\* mutant: the inverted value is the negated value
InvertedNegated(value, name, invert) ==
    IF name \in invert THEN FSub(FZero, value) ELSE value

\* lines 137-141: the value a feature contributes, inverted if listed
FeatureValue(value, name, invert) ==
    IF name \in invert THEN FSub(FOne, value) ELSE value

RECURSIVE WeightedSum(_, _, _, _, _)
\* lines 133-143: score += weight * feature_values, over the weights whose
\* feature is in the input (todo: the weight names still to visit)
WeightedSum(todo, feats, wts, invert, i) ==
    IF todo = {} THEN FZero
    ELSE LET name == CHOOSE x \in todo : TRUE
             rest == WeightedSum(todo \ {name}, feats, wts, invert, i)
         IN  IF name \notin DOMAIN feats THEN rest
             ELSE FAdd(rest, FMul(wts[name], FeatureValue(feats[name][i], name, invert)))

RECURSIVE NominalWeight(_, _, _)
\* mutant: the divisor is the total of all configured weights
NominalWeight(todo, feats, wts) ==
    IF todo = {} THEN FZero
    ELSE LET name == CHOOSE x \in todo : TRUE
         IN  FAdd(NominalWeight(todo \ {name}, feats, wts), wts[name])

RECURSIVE TotalWeightFrom(_, _, _)
TotalWeightFrom(todo, feats, wts) ==
    IF todo = {} THEN FZero
    ELSE LET name == CHOOSE x \in todo : TRUE
             rest == TotalWeightFrom(todo \ {name}, feats, wts)
         IN  IF name \notin DOMAIN feats THEN rest ELSE FAdd(rest, wts[name])

\* lines 130-144: total_weight += weight, for the present features only
TotalWeight(todo, feats, wts) == TotalWeightFrom(todo, feats, wts)

\* lines 124-153: the returned array
WeightedScore(feats, wts, invert) ==
    LET first_key == CHOOSE k \in DOMAIN feats : TRUE
        n == Len(feats[first_key])
        total_weight == TotalWeight(DOMAIN wts, feats, wts)
    IN  [i \in 1..n |->
            LET sum == WeightedSum(DOMAIN wts, feats, wts, invert, i)
            IN  IF FLt(FZero, total_weight) THEN FDiv(sum, total_weight) ELSE sum]

\* lines 119-120: an empty features dictionary raises ValueError
CwsRaiseEmpty ==
    /\ cwsPc = "call"
    /\ DOMAIN features = {}
    /\ cwsPc' = "raised"
    /\ UNCHANGED <<features, weights, invert_features, score>>
    /\ UNCHANGED cwsOthers

CwsReturn ==
    /\ cwsPc = "call"
    /\ DOMAIN features # {}
    /\ score' = WeightedScore(features, weights, invert_features)
    /\ cwsPc' = "returned"
    /\ UNCHANGED <<features, weights, invert_features>>
    /\ UNCHANGED cwsOthers

CwsNext == CwsRaiseEmpty \/ CwsReturn

RECURSIVE FSum(_)
\* the sum of the fractions of a function's range, counted per argument
FSum(f) ==
    IF DOMAIN f = {} THEN FZero
    ELSE LET x == CHOOSE y \in DOMAIN f : TRUE
         IN  FAdd(f[x], FSum([y \in DOMAIN f \ {x} |-> f[y]]))

PresentWeighted == DOMAIN weights \cap DOMAIN features
\* sum over the present weighted features of weight * value (1 - value if inverted)
CwsNumerator(i) ==
    FSum([f \in PresentWeighted |->
            FMul(weights[f], IF f \in invert_features
                             THEN FSub(FOne, features[f][i]) ELSE features[f][i])])
\* sum of the weights of the present weighted features
CwsDivisor == FSum([f \in PresentWeighted |-> weights[f]])
CwsRows == 1..Len(features[CHOOSE k \in DOMAIN features : TRUE])

\* C3 as stated: every element of the result is the weighted sum over the
\* present features divided by the sum of their weights (score * divisor =
\* numerator).
C3_DividedByPresentWeight ==
    cwsPc = "returned" =>
        /\ DOMAIN score = CwsRows
        /\ \A i \in CwsRows : FEq(FMul(score[i], CwsDivisor), CwsNumerator(i))

\* C3 amended: the weighted sum over the present features is divided by the
\* sum of their weights when that sum is positive, and is returned undivided
\* when it is zero or negative; an absent configured feature adds to neither.
C3_DividedWhenPositive ==
    cwsPc = "returned" =>
        /\ DOMAIN score = CwsRows
        /\ \A i \in CwsRows :
              IF FLt(FZero, CwsDivisor)
              THEN FEq(FMul(score[i], CwsDivisor), CwsNumerator(i))
              ELSE FEq(score[i], CwsNumerator(i))

\* C3 witness: f1 is configured with a non-zero weight but absent, f2 is
\* present and inverted, and the score is f2's inverted value 1/2
C3_Witness ==
    /\ cwsPc = "returned"
    /\ DOMAIN weights = {"f1", "f2"} /\ DOMAIN features = {"f2"}
    /\ weights["f1"] = <<6, 10>> /\ weights["f2"] = <<4, 10>>
    /\ invert_features = {"f2"}
    /\ features["f2"][1] = <<1, 2>> /\ FEq(score[1], <<1, 2>>)

NonNegativeWeights == \A f \in DOMAIN weights : FLe(FZero, weights[f])

\* C4 as stated: with feature values in [0,1] every element of the result
\* lies in [0,1], whatever the weights.
C4_ScoreInUnitInterval ==
    cwsPc = "returned" =>
        \A i \in DOMAIN score : FLe(FZero, score[i]) /\ FLe(score[i], FOne)

\* C4 amended: with feature values in [0,1] and no negative weight, every
\* element of the result lies in [0,1], whichever features are present.
C4_UnitIntervalNonNegWeights ==
    (cwsPc = "returned" /\ NonNegativeWeights) =>
        \A i \in DOMAIN score : FLe(FZero, score[i]) /\ FLe(score[i], FOne)

\* C4 witness: weights 0.6 and 1.5 (not summing to 1), the second feature
\* absent, and the score of a row whose only present value is 1 is exactly 1
C4_Witness ==
    /\ cwsPc = "returned" /\ NonNegativeWeights
    /\ DOMAIN weights = {"f1", "f2"} /\ DOMAIN features = {"f1"}
    /\ weights["f1"] = <<6, 10>> /\ weights["f2"] = <<15, 10>>
    /\ features["f1"][1] = <<1, 1>> /\ FEq(score[1], FOne)

---------------------------------------------------------------------------
(* get_top_k_with_explanations                                             *)

TopMaxRows == 3

\* the score column: NaN or a number
TopScores == {NaN, <<1, 1>>, <<2, 1>>}

TopIdle ==
    /\ topDf = [columns |-> {}, rows |-> <<>>] /\ topK = 0
    /\ topResult = <<>> /\ topPc = "idle"

\* df: rows in their original order, each with its symbol (here its original
\* position) and its score; the score column may be missing
TopInit ==
    /\ \E n \in 0..TopMaxRows : \E scores \in [1..n -> TopScores] :
       \E columns \in {{"symbol", "score"}, {"symbol"}} :
          topDf = [columns |-> columns,
                   rows |-> [i \in 1..n |-> [symbol |-> i, score |-> scores[i]]]]
    /\ topK \in 0..(TopMaxRows + 1)
    /\ topResult = <<>>
    /\ topPc = "call"

RowOrders(n) ==
    {p \in [1..n -> 1..n] : \A i, j \in 1..n : p[i] = p[j] => i = j}

\* df.sort_values(score_column, ascending=False) with the default
\* kind='quicksort' and na_position='last': numbers in descending order,
\* then the NaN rows in their original order.  quicksort is not a stable
\* sort: the order of rows with equal scores is whatever the build's
\* argsort gives, so every order of the tied rows is an outcome.
SortOutcomes(rows) ==
    LET n == Len(rows)
        isNaN(i) == IsNaN(rows[i].score)
    IN  {p \in RowOrders(n) :
            \A a, b \in 1..n : a < b =>
                /\ isNaN(p[a]) => isNaN(p[b]) /\ p[a] < p[b]
                /\ (~isNaN(p[a]) /\ ~isNaN(p[b])) => FLe(rows[p[b]].score, rows[p[a]].score)}

\* .head(k)
HeadRows(rows, k) == SubSeq(rows, 1, IF k < Len(rows) THEN k ELSE Len(rows))

\* lines 248-249: the score column is missing -> ValueError
TopRaiseNoColumn ==
    /\ topPc = "call"
    /\ "score" \notin topDf.columns
    /\ topPc' = "raised"
    /\ UNCHANGED <<topDf, topK, topResult>>
    /\ UNCHANGED topOthers

\* lines 252-254
TopReturn ==
    /\ topPc = "call"
    /\ "score" \in topDf.columns
    /\ \E p \in SortOutcomes(topDf.rows) :
          topResult' = HeadRows([i \in 1..Len(topDf.rows) |-> topDf.rows[p[i]]], topK)
    /\ topPc' = "returned"
    /\ UNCHANGED <<topDf, topK>>
    /\ UNCHANGED topOthers

TopNext == TopRaiseNoColumn \/ TopReturn

\* the stable order: descending score, equal scores in original row order
StableOrder(rows) ==
    CHOOSE p \in SortOutcomes(rows) :
        \A a, b \in 1..Len(rows) :
            (a < b /\ rows[p[a]].score = rows[p[b]].score) => p[a] < p[b]

\* C5: the result is the first min(k, n) rows of the table sorted by
\* descending score with equal scores kept in their original row order.
C5_StableTopK ==
    topPc = "returned" =>
        /\ Len(topResult) = (IF topK < Len(topDf.rows) THEN topK ELSE Len(topDf.rows))
        /\ LET p == StableOrder(topDf.rows)
           IN  \A i \in DOMAIN topResult : topResult[i] = topDf.rows[p[i]]

---------------------------------------------------------------------------
(* apply_filters                                                           *)

FiltMaxRows == 2

FilterColumns == {"market_cap", "avg_volume", "price", "pe_ratio", "exchange"}

StockRow(mc, vol, price, pe, exch) ==
    [market_cap |-> mc, avg_volume |-> vol, price |-> price, pe_ratio |-> pe, exchange |-> exch]

\* the thresholds are all 2: cells are below (1), at (2) or above (3) them
F1 == <<1, 1>>
F2 == <<2, 1>>
F3 == <<3, 1>>

StockRows ==
    { StockRow(F2, F2, F2, F2, "NYSE"),   \* at every threshold: passes
      StockRow(F1, F3, F3, F1, "NMS"),    \* market cap too small
      StockRow(NaN, F3, F3, F1, "NMS"),   \* market cap missing
      StockRow(F3, F1, F3, F1, "NMS"),    \* volume too small
      StockRow(F3, F3, F1, F1, "NMS"),    \* price too small
      StockRow(F3, F3, F3, F3, "NMS"),    \* P/E too large
      StockRow(F3, F3, F3, NaN, "NMS"),   \* P/E missing
      StockRow(F3, F3, F3, F1, "LSE") }   \* exchange not listed

AllFilterArgs ==
    [min_market_cap : {None, Some(F2)},
     min_avg_volume : {None, Some(F2)},
     min_price : {None, Some(F2)},
     max_pe_ratio : {None, Some(F2)},
     tradable_exchanges : {None, Some({}), Some({"NMS", "NYSE"})}]

ArgsSet(a) ==
    Cardinality({f \in DOMAIN a : a[f] # None})

\* the argument combinations tried: none set, one set, all set (a missing
\* column then leaves four conditions active)
FilterArgs == {a \in AllFilterArgs : ArgsSet(a) \in {0, 1, 5}}

FiltIdle ==
    /\ filtDf = [columns |-> {}, rows |-> <<>>] /\ filtArgs = <<>>
    /\ filtResult = <<>> /\ filtPc = "idle"

\* df: its columns (at most one of the filter columns missing) and its rows,
\* each tagged with its original position; the five optional arguments
FiltInit ==
    /\ \E rows \in SeqsUpTo(StockRows, FiltMaxRows) :
       \E columns \in {FilterColumns} \cup {FilterColumns \ {c} : c \in FilterColumns} :
          filtDf = [columns |-> columns \cup {"symbol"},
                    rows |-> [i \in DOMAIN rows |-> [symbol |-> i, cells |-> rows[i]]]]
    /\ filtArgs \in FilterArgs
    /\ filtResult = <<>>
    /\ filtPc = "call"

\* column >= threshold; a comparison with NaN is False
AtLeast(x, threshold) == ~IsNaN(x) /\ FLe(threshold, x)

\* mutant: a missing P/E fails the filter
PePassesNoNaN(pe, max_pe_ratio) == ~IsNaN(pe) /\ FLe(pe, max_pe_ratio)

\* lines 205-207: (pe_ratio.isna()) | (pe_ratio <= max_pe_ratio)
PePasses(pe, max_pe_ratio) == IsNaN(pe) \/ (~IsNaN(pe) /\ FLe(pe, max_pe_ratio))

\* lines 192-193
MarketCapFilter(columns, args, rows) ==
    IF args.min_market_cap # None /\ "market_cap" \in columns
    THEN LET ok(r) == AtLeast(r.cells.market_cap, Get(args.min_market_cap)) IN SelectSeq(rows, ok)
    ELSE rows

\* lines 196-197
VolumeFilter(columns, args, rows) ==
    IF args.min_avg_volume # None /\ "avg_volume" \in columns
    THEN LET ok(r) == AtLeast(r.cells.avg_volume, Get(args.min_avg_volume)) IN SelectSeq(rows, ok)
    ELSE rows

\* lines 200-201
PriceFilter(columns, args, rows) ==
    IF args.min_price # None /\ "price" \in columns
    THEN LET ok(r) == AtLeast(r.cells.price, Get(args.min_price)) IN SelectSeq(rows, ok)
    ELSE rows

\* lines 204-207
PeFilter(columns, args, rows) ==
    IF args.max_pe_ratio # None /\ "pe_ratio" \in columns
    THEN LET ok(r) == PePasses(r.cells.pe_ratio, Get(args.max_pe_ratio)) IN SelectSeq(rows, ok)
    ELSE rows

\* lines 210-211: `if tradable_exchanges and ...`: None and the empty list
\* are both false
ExchangeFilter(columns, args, rows) ==
    IF args.tradable_exchanges # None /\ Get(args.tradable_exchanges) # {}
       /\ "exchange" \in columns
    THEN LET ok(r) == r.cells.exchange \in Get(args.tradable_exchanges) IN SelectSeq(rows, ok)
    ELSE rows

FilterStep(step, columns, args, rows) ==
    CASE step = 1 -> MarketCapFilter(columns, args, rows)
      [] step = 2 -> VolumeFilter(columns, args, rows)
      [] step = 3 -> PriceFilter(columns, args, rows)
      [] step = 4 -> PeFilter(columns, args, rows)
      [] step = 5 -> ExchangeFilter(columns, args, rows)

RECURSIVE FilterChain(_, _, _, _)
\* the filters applied one after the other, in the order given
FilterChain(order, columns, args, rows) ==
    IF order = <<>> THEN rows
    ELSE FilterChain(Tail(order), columns, args, FilterStep(Head(order), columns, args, rows))

\* lines 188-217: the order of the code
ApplyFilters(df, args) == FilterChain(<<1, 2, 3, 4, 5>>, df.columns, args, df.rows)

FiltReturn ==
    /\ filtPc = "call"
    /\ filtResult' = ApplyFilters(filtDf, filtArgs)
    /\ filtPc' = "returned"
    /\ UNCHANGED <<filtDf, filtArgs>>
    /\ UNCHANGED filtOthers

FiltNext == FiltReturn

\* a condition is active if its threshold is set (for the whitelist: set and
\* not empty) and its column exists
FiltActive(c) ==
    /\ c \in filtDf.columns
    /\ CASE c = "market_cap" -> filtArgs.min_market_cap # None
         [] c = "avg_volume" -> filtArgs.min_avg_volume # None
         [] c = "price" -> filtArgs.min_price # None
         [] c = "pe_ratio" -> filtArgs.max_pe_ratio # None
         [] c = "exchange" -> filtArgs.tradable_exchanges \notin {None, Some({})}

\* a row satisfies every active condition; a missing P/E satisfies the P/E one
FiltEligible(r) ==
    /\ FiltActive("market_cap") =>
          ~IsNaN(r.cells.market_cap) /\ FLe(Get(filtArgs.min_market_cap), r.cells.market_cap)
    /\ FiltActive("avg_volume") =>
          ~IsNaN(r.cells.avg_volume) /\ FLe(Get(filtArgs.min_avg_volume), r.cells.avg_volume)
    /\ FiltActive("price") =>
          ~IsNaN(r.cells.price) /\ FLe(Get(filtArgs.min_price), r.cells.price)
    /\ FiltActive("pe_ratio") =>
          IsNaN(r.cells.pe_ratio) \/ FLe(r.cells.pe_ratio, Get(filtArgs.max_pe_ratio))
    /\ FiltActive("exchange") => r.cells.exchange \in Get(filtArgs.tradable_exchanges)

StepOrders == {o \in [1..5 -> 1..5] : \A i, j \in 1..5 : o[i] = o[j] => i = j}

\* C6: the result is exactly the rows that satisfy every active condition,
\* in their original relative order; a condition is active only if its
\* threshold is set and its column exists; a row with a missing P/E passes
\* the P/E condition; and evaluating the five conditions in any other order
\* gives the same result.
C6_FiltersConjunction ==
    filtPc = "returned" =>
        /\ filtResult = SelectSeq(filtDf.rows, FiltEligible)
        /\ \A o \in StepOrders :
              FilterChain(o, filtDf.columns, filtArgs, filtDf.rows) = filtResult

\* C6 witness: all five conditions are active, the first row has a missing
\* P/E and is kept, the second row is dropped
C6_Witness ==
    /\ filtPc = "returned"
    /\ \A c \in FilterColumns : FiltActive(c)
    /\ Len(filtDf.rows) = 2
    /\ IsNaN(filtDf.rows[1].cells.pe_ratio)
    /\ filtResult = <<filtDf.rows[1]>>

---------------------------------------------------------------------------
(* ScoringService: compute_technical_score, compute_fundamental_score,     *)
(* compute_composite_score, in the order run_scoring_pipeline calls them   *)

SvcMaxRows == 2

TechFeatures == {"rsi_14", "momentum_20"}
FundFeatures == {"eps"}

\* f'norm_{feature_name}'
NormCol(f) ==
    CASE f = "rsi_14" -> "norm_rsi_14"
      [] f = "momentum_20" -> "norm_momentum_20"
      [] f = "eps" -> "norm_eps"

\* a feature's configuration: 'weight' and 'direction' may both be left out
FeatureConfigs(f) ==
    CASE f = "rsi_14" -> [weight : {None, Some(<<6, 10>>)}, direction : {None, Some("negative")}]
      [] f = "momentum_20" -> [weight : {Some(<<4, 10>>)}, direction : {Some("positive")}]
      [] f = "eps" -> [weight : {None, Some(<<1, 1>>)}, direction : {None}]

CategoryConfigs(names) ==
    UNION {{c \in [configured -> UNION {FeatureConfigs(f) : f \in configured}] :
                \A f \in configured : c[f] \in FeatureConfigs(f)} :
           configured \in SUBSET names}

\* normalized columns hold 1/2 or 1
SvcValues == {<<1, 2>>, <<1, 1>>}

SvcIdle ==
    /\ config = <<>> /\ svcDf = [n |-> 0, cols |-> <<>>] /\ svcPc = "idle"

\* the configuration, and the table handed to compute_technical_score: any
\* of the normalized columns may be missing
SvcInit ==
    /\ config \in [technical_features : CategoryConfigs(TechFeatures),
                   fundamental_features : CategoryConfigs(FundFeatures),
                   composite_weights : [technical : {None, Some(<<1, 2>>)},
                                        fundamental : {None, Some(<<1, 4>>)}]]
    /\ \E n \in 0..SvcMaxRows :
       \E present \in SUBSET {NormCol(f) : f \in TechFeatures \cup FundFeatures} :
       \E cols \in [present -> [1..n -> SvcValues]] :
          svcDf = [n |-> n, cols |-> cols]
    /\ svcPc = "tech"

\* df[name] = column
WithColumn(df, name, column) ==
    [df EXCEPT !.cols = [c \in DOMAIN df.cols \cup {name} |->
                            IF c = name THEN column ELSE df.cols[c]]]

\* lines 197-207: the weights, keyed by normalized column; weight defaults to 0
CategoryWeights(cat) ==
    [c \in {NormCol(f) : f \in DOMAIN cat} |->
        LET f == CHOOSE g \in DOMAIN cat : NormCol(g) = c
        IN  IF cat[f].weight = None THEN FZero ELSE Get(cat[f].weight)]

\* lines 204-207: direction defaults to 'positive'; 'negative' inverts
CategoryInverted(cat) ==
    {NormCol(f) : f \in {g \in DOMAIN cat : cat[g].direction = Some("negative")}}

\* lines 210-213: the configured columns that are in df
CategoryFeatures(cat, df) ==
    [c \in {NormCol(f) : f \in DOMAIN cat} \cap DOMAIN df.cols |-> df.cols[c]]

\* the score column of a category when it has no feature in df: 0.0
NoFeatureScore(df) == [i \in 1..df.n |-> FZero]

\* lines 215-218 / 261-264: no configured feature is in df
CategoryNoFeatures(cat, column, next) ==
    /\ DOMAIN CategoryFeatures(cat, svcDf) = {}
    /\ svcDf' = WithColumn(svcDf, column, NoFeatureScore(svcDf))
    /\ svcPc' = next
    /\ UNCHANGED config
    /\ UNCHANGED svcOthers

\* lines 220-228 / 266-274: the weighted score of the features in df
CategoryScored(cat, column, next) ==
    /\ DOMAIN CategoryFeatures(cat, svcDf) # {}
    /\ svcDf.n > 0
    /\ svcDf' = WithColumn(svcDf, column,
                     WeightedScore(CategoryFeatures(cat, svcDf), CategoryWeights(cat),
                                   CategoryInverted(cat)))
    /\ svcPc' = next
    /\ UNCHANGED config
    /\ UNCHANGED svcOthers

\* lines 223-226 / 269-272: on a table without rows the column is set and
\* then the report of the score range raises (min of an empty array)
CategoryRaises(cat, column, raised) ==
    /\ DOMAIN CategoryFeatures(cat, svcDf) # {}
    /\ svcDf.n = 0
    /\ svcDf' = WithColumn(svcDf, column, <<>>)
    /\ svcPc' = raised
    /\ UNCHANGED config
    /\ UNCHANGED svcOthers

TechNoFeatures ==
    svcPc = "tech" /\ CategoryNoFeatures(config.technical_features, "tech_score", "fund")
TechScored ==
    svcPc = "tech" /\ CategoryScored(config.technical_features, "tech_score", "fund")
TechRaises ==
    svcPc = "tech" /\ CategoryRaises(config.technical_features, "tech_score", "tech_raised")

FundNoFeatures ==
    svcPc = "fund" /\ CategoryNoFeatures(config.fundamental_features, "fund_score", "composite")
FundScored ==
    svcPc = "fund" /\ CategoryScored(config.fundamental_features, "fund_score", "composite")
FundRaises ==
    svcPc = "fund" /\ CategoryRaises(config.fundamental_features, "fund_score", "fund_raised")

\* mutant: the default weights the other way round
CompositeWeightsSwapped(cfg) ==
    [technical |-> IF cfg.composite_weights.technical = None
                   THEN <<4, 10>> ELSE Get(cfg.composite_weights.technical),
     fundamental |-> IF cfg.composite_weights.fundamental = None
                     THEN <<6, 10>> ELSE Get(cfg.composite_weights.fundamental)]

\* lines 286-288: weights.get('technical', 0.6), weights.get('fundamental', 0.4)
CompositeWeights(cfg) ==
    [technical |-> IF cfg.composite_weights.technical = None
                   THEN <<6, 10>> ELSE Get(cfg.composite_weights.technical),
     fundamental |-> IF cfg.composite_weights.fundamental = None
                     THEN <<4, 10>> ELSE Get(cfg.composite_weights.fundamental)]

\* lines 292-301
ComputeCompositeScore ==
    /\ svcPc = "composite"
    /\ LET w == CompositeWeights(config)
       IN  svcDf' = WithColumn(svcDf, "composite_score",
                [i \in 1..svcDf.n |->
                    FAdd(FMul(w.technical, svcDf.cols["tech_score"][i]),
                         FMul(w.fundamental, svcDf.cols["fund_score"][i]))])
    /\ svcPc' = "done"
    /\ UNCHANGED config
    /\ UNCHANGED svcOthers

SvcNext ==
    \/ TechNoFeatures \/ TechScored \/ TechRaises
    \/ FundNoFeatures \/ FundScored \/ FundRaises
    \/ ComputeCompositeScore

\* the configured features of a category that are columns of the table
SvcPresent(names) == {f \in names : NormCol(f) \in DOMAIN svcDf.cols}
TechPresent == SvcPresent(DOMAIN config.technical_features)
FundPresent == SvcPresent(DOMAIN config.fundamental_features)
SvcWTech ==
    IF config.composite_weights.technical = None
    THEN <<6, 10>> ELSE config.composite_weights.technical[1]
SvcWFund ==
    IF config.composite_weights.fundamental = None
    THEN <<4, 10>> ELSE config.composite_weights.fundamental[1]

\* C7: after the three stages every row has composite_score = w_tech *
\* tech_score + w_fund * fund_score, with w_tech = 0.6 and w_fund = 0.4 unless
\* configured; a category none of whose configured features is a column of
\* the table does not raise and scores 0 in every row, and the composite is
\* then the other category's score times that category's own weight.
C7_CompositeScore ==
    /\ svcPc = "tech_raised" => TechPresent # {}
    /\ svcPc = "fund_raised" => FundPresent # {}
    /\ svcPc = "done" =>
          \A i \in 1..svcDf.n :
            LET tech == svcDf.cols["tech_score"][i]
                fund == svcDf.cols["fund_score"][i]
                composite == svcDf.cols["composite_score"][i]
            IN  /\ FEq(composite, FAdd(FMul(SvcWTech, tech), FMul(SvcWFund, fund)))
                /\ TechPresent = {} => tech = FZero /\ FEq(composite, FMul(SvcWFund, fund))
                /\ FundPresent = {} => fund = FZero /\ FEq(composite, FMul(SvcWTech, tech))

\* C7 witness: no technical feature is in the table although two are
\* configured, the fundamental score is 1, the weights are the defaults, and
\* the composite score is 0.4
C7_Witness ==
    /\ svcPc = "done" /\ svcDf.n = 1
    /\ DOMAIN config.technical_features = TechFeatures /\ TechPresent = {}
    /\ config.composite_weights = [technical |-> None, fundamental |-> None]
    /\ svcDf.cols["fund_score"][1] = FOne
    /\ svcDf.cols["tech_score"][1] = FZero
    /\ FEq(svcDf.cols["composite_score"][1], <<4, 10>>)

\* C24: the scoring stages leave the table they are given as it was: no step
\* of compute_technical_score, compute_fundamental_score or
\* compute_composite_score changes svcDf, the table object passed in by the
\* caller.
C24_InputNotMutated == [][svcDf' = svcDf]_vars

---------------------------------------------------------------------------
(* apply_corporate_actions, adjust_for_splits, adjust_for_dividends        *)

CaMaxRows == 3
CaMaxActions == 3

PriceColumns == {"open", "high", "low", "close"}

\* a daily frame: its date index 1..n and, per column, one cell per date;
\* the cells of different columns and dates differ
CaCell(c, d) ==
    CASE c = "open" -> <<60 + d, 1>>
      [] c = "high" -> <<80 + d, 1>>
      [] c = "low" -> <<40 + d, 1>>
      [] c = "close" -> <<70 + d, 1>>
      [] c = "volume" -> <<1000 * d, 1>>
      [] c = "sector" -> <<7, 1>>

CaFrame(columns, n) ==
    [index |-> [i \in 1..n |-> i],
     cells |-> [c \in columns |-> [i \in 1..n |-> CaCell(c, i)]]]

SplitRatios == {<<2, 1>>, <<3, 1>>}
DividendAmounts == {<<1, 1>>}

CaIdle ==
    /\ caDf = CaFrame({}, 0) /\ caActions = None /\ caResult = CaFrame({}, 0)
    /\ caPc = "idle"

\* a dictionary is the sequence of its (key, value) items in insertion order
HasKey(dict, key) == \E i \in DOMAIN dict : dict[i][1] = key
Lookup(dict, key) == dict[CHOOSE i \in DOMAIN dict : dict[i][1] = key][2]

\* the dictionaries holding some of the two items, in either order
ActionDicts(splits, dividends) ==
    LET sp == <<"splits", splits>>
        dv == <<"dividends", dividends>>
    IN  {<<sp, dv>>, <<dv, sp>>}
        \cup (IF dividends = <<>> THEN {<<sp>>} ELSE {})
        \cup (IF splits = <<>> THEN {<<dv>>} ELSE {})
        \cup (IF splits = <<>> /\ dividends = <<>> THEN {<<>>} ELSE {})

\* actions: None, or a dictionary whose 'splits' and 'dividends' lists of
\* (date, ratio) and (date, amount) may each be left out
CaInit ==
    /\ \E n \in 0..CaMaxRows :
          /\ caDf \in {CaFrame(OHLCV \cup {"sector"}, n), CaFrame({"close"}, n)}
          /\ \/ caActions = None
             \/ \E ks \in 0..CaMaxActions : \E kd \in 0..(CaMaxActions - ks) :
                \E splits \in [1..ks -> (1..(n + 1)) \X SplitRatios] :
                \E dividends \in [1..kd -> (1..(n + 1)) \X DividendAmounts] :
                   caActions \in {Some(d) : d \in ActionDicts(splits, dividends)}
    /\ caResult = CaFrame({}, 0)
    /\ caPc = "call"

\* lines 35-47: every row of df, prices divided and volume multiplied
AdjustForSplits(df, split_ratio) ==
    [df EXCEPT !.cells =
        [c \in DOMAIN df.cells |->
            [i \in DOMAIN df.index |->
                IF c \in PriceColumns THEN XDiv(df.cells[c][i], split_ratio)
                ELSE IF c = "volume" THEN XMul(df.cells[c][i], split_ratio)
                ELSE df.cells[c][i]]]]

\* lines 61-69: every row of df, the dividend subtracted from the prices
AdjustForDividends(df, dividend_amount) ==
    [df EXCEPT !.cells =
        [c \in DOMAIN df.cells |->
            [i \in DOMAIN df.index |->
                IF c \in PriceColumns THEN XSub(df.cells[c][i], dividend_amount)
                ELSE df.cells[c][i]]]]

\* mutant: the rows dated on the action's date are adjusted too
MaskOnOrBefore(df, date) == {i \in DOMAIN df.index : df.index[i] <= date}

\* lines 102, 109: mask = result.index < pd.to_datetime(date)
Mask(df, date) == {i \in DOMAIN df.index : df.index[i] < date}

\* lines 103-104, 110-111: result.loc[mask] = adjusted rows (if mask.any())
AssignMasked(result, mask, adjusted) ==
    IF mask = {} THEN result
    ELSE [result EXCEPT !.cells =
            [c \in DOMAIN result.cells |->
                [i \in DOMAIN result.index |->
                    IF i \in mask THEN adjusted.cells[c][i] ELSE result.cells[c][i]]]]

\* mutant: only the first split of the list is applied
FirstSplitOnly(result, splits) ==
    IF splits = <<>> THEN result
    ELSE AssignMasked(result, Mask(result, Head(splits)[1]),
                      AdjustForSplits(result, Head(splits)[2]))

RECURSIVE ApplySplits(_, _)
\* lines 101-104: for split_date, split_ratio in actions['splits']
ApplySplits(result, splits) ==
    IF splits = <<>> THEN result
    ELSE ApplySplits(AssignMasked(result, Mask(result, Head(splits)[1]),
                                  AdjustForSplits(result, Head(splits)[2])),
                     Tail(splits))

RECURSIVE ApplyDividends(_, _)
\* lines 108-111: for div_date, div_amount in actions['dividends']
ApplyDividends(result, dividends) ==
    IF dividends = <<>> THEN result
    ELSE ApplyDividends(AssignMasked(result, Mask(result, Head(dividends)[1]),
                                     AdjustForDividends(result, Head(dividends)[2])),
                        Tail(dividends))

\* lines 89-113: the splits, then the dividends
ApplyCorporateActions(df, actions) ==
    LET afterSplits ==
            IF HasKey(actions, "splits")
            THEN ApplySplits(df, Lookup(actions, "splits")) ELSE df
    IN  IF HasKey(actions, "dividends")
        THEN ApplyDividends(afterSplits, Lookup(actions, "dividends")) ELSE afterSplits

\* line 86: `not actions` holds of None and of the empty dictionary
NoActions(actions) ==
    IF actions = None THEN TRUE ELSE Get(actions) = <<>>

\* lines 86-87: `if not actions: return df`
CaNoActions ==
    /\ caPc = "call"
    /\ NoActions(caActions)
    /\ caResult' = caDf
    /\ caPc' = "returned"
    /\ UNCHANGED <<caDf, caActions>>
    /\ UNCHANGED caOthers

CaAdjust ==
    /\ caPc = "call"
    /\ ~NoActions(caActions)
    /\ caResult' = ApplyCorporateActions(caDf, Get(caActions))
    /\ caPc' = "returned"
    /\ UNCHANGED <<caDf, caActions>>
    /\ UNCHANGED caOthers

CaNext == CaNoActions \/ CaAdjust

CaList(key) ==
    IF caActions = None THEN <<>>
    ELSE IF \E i \in DOMAIN Get(caActions) : Get(caActions)[i][1] = key
         THEN (Get(caActions)[CHOOSE i \in DOMAIN Get(caActions) :
                                  Get(caActions)[i][1] = key])[2]
         ELSE <<>>
\* the dictionary was supplied with its dividends ahead of its splits
CaDividendsFirst ==
    /\ caActions # None
    /\ Len(Get(caActions)) = 2
    /\ Get(caActions)[1][1] = "dividends"
CaSplits == CaList("splits")
CaDividends == CaList("dividends")

\* C8: after a single split (D, r) every row dated before D has each price
\* divided by r and its volume multiplied by r; after a single dividend
\* (D, a) every row dated before D has each price reduced by a and its
\* volume unchanged; rows dated on or after D, and other columns, are
\* unchanged.
C8_SingleAction ==
    caPc = "returned" =>
        /\ DOMAIN caResult.cells = DOMAIN caDf.cells /\ caResult.index = caDf.index
        /\ (Len(CaSplits) = 1 /\ CaDividends = <<>>) =>
              \A c \in DOMAIN caDf.cells : \A i \in DOMAIN caDf.index :
                LET D == CaSplits[1][1]
                    r == CaSplits[1][2]
                    old == caDf.cells[c][i]
                    new == caResult.cells[c][i]
                IN  IF caDf.index[i] < D /\ c \in PriceColumns THEN FEq(FMul(new, r), old)
                    ELSE IF caDf.index[i] < D /\ c = "volume" THEN FEq(new, FMul(old, r))
                    ELSE new = old
        /\ (Len(CaDividends) = 1 /\ CaSplits = <<>>) =>
              \A c \in DOMAIN caDf.cells : \A i \in DOMAIN caDf.index :
                LET D == CaDividends[1][1]
                    a == CaDividends[1][2]
                    old == caDf.cells[c][i]
                    new == caResult.cells[c][i]
                IN  IF caDf.index[i] < D /\ c \in PriceColumns THEN FEq(FAdd(new, a), old)
                    ELSE new = old

\* C8 witness: a split by 2 dated on the third of three days: the first two
\* closes are halved and their volumes doubled, the third day is unchanged
C8_Witness ==
    /\ caPc = "returned" /\ Len(caDf.index) = 3 /\ "volume" \in DOMAIN caDf.cells
    /\ CaSplits = <<<<3, <<2, 1>>>>>> /\ CaDividends = <<>>
    /\ FEq(caResult.cells["close"][2], <<72, 2>>)
    /\ FEq(caResult.cells["volume"][2], <<4000, 1>>)
    /\ caResult.cells["close"][3] = caDf.cells["close"][3]
    /\ caResult.cells["volume"][3] = caDf.cells["volume"][3]

RECURSIVE RatioProduct(_, _)
\* the product of the ratios of the splits dated after day d
RatioProduct(splits, d) ==
    IF splits = <<>> THEN FOne
    ELSE FMul(IF d < Head(splits)[1] THEN Head(splits)[2] ELSE FOne,
              RatioProduct(Tail(splits), d))

RECURSIVE AmountSum(_, _)
\* the sum of the amounts of the dividends dated after day d
AmountSum(dividends, d) ==
    IF dividends = <<>> THEN FZero
    ELSE FAdd(IF d < Head(dividends)[1] THEN Head(dividends)[2] ELSE FZero,
              AmountSum(Tail(dividends), d))

\* C9 as stated: the actions accumulate in the order supplied, each on the
\* frame as adjusted so far: when the dividends are supplied ahead of the
\* splits a row ends with (price - sum of the dividends dated after it) /
\* (product of the ratios of the splits dated after it), otherwise with
\* price / product - sum; its volume ends multiplied by the product.
C9_OrderSupplied ==
    caPc = "returned" =>
        \A c \in DOMAIN caDf.cells : \A i \in DOMAIN caDf.index :
            LET d == caDf.index[i]
                old == caDf.cells[c][i]
                new == caResult.cells[c][i]
                ratios == RatioProduct(CaSplits, d)
                amounts == AmountSum(CaDividends, d)
            IN  IF c \in PriceColumns
                THEN IF CaDividendsFirst
                     THEN FEq(new, FDiv(FSub(old, amounts), ratios))
                     ELSE FEq(new, FSub(FDiv(old, ratios), amounts))
                ELSE IF c = "volume" THEN FEq(new, FMul(old, ratios))
                ELSE new = old

\* C9: the actions accumulate, the splits in the order of their list and
\* then the dividends in the order of theirs whichever was supplied first,
\* each on the frame as adjusted so far: a row ends with price / (product
\* of the ratios of the splits dated after it) - (sum of the dividends
\* dated after it) and volume * (that product); so a row before two splits
\* ends with price/(r1*r2) and volume*r1*r2, and a row between them is
\* adjusted by the later split only.
C9_Cumulative ==
    caPc = "returned" =>
        \A c \in DOMAIN caDf.cells : \A i \in DOMAIN caDf.index :
            LET d == caDf.index[i]
                old == caDf.cells[c][i]
                new == caResult.cells[c][i]
                ratios == RatioProduct(CaSplits, d)
                amounts == AmountSum(CaDividends, d)
            IN  IF c \in PriceColumns THEN FEq(new, FSub(FDiv(old, ratios), amounts))
                ELSE IF c = "volume" THEN FEq(new, FMul(old, ratios))
                ELSE new = old

\* C9 witness: splits by 2 dated day 2 and by 3 dated day 3: day 1 precedes
\* both (close / 6, volume * 6), day 2 lies between them (close / 3)
C9_Witness ==
    /\ caPc = "returned" /\ Len(caDf.index) = 3 /\ "volume" \in DOMAIN caDf.cells
    /\ CaSplits = << <<2, <<2, 1>>>>, <<3, <<3, 1>>>> >> /\ CaDividends = <<>>
    /\ FEq(caResult.cells["close"][1], <<71, 6>>)
    /\ FEq(caResult.cells["volume"][1], <<6000, 1>>)
    /\ FEq(caResult.cells["close"][2], <<72, 3>>)
    /\ FEq(caResult.cells["volume"][2], <<6000, 1>>)
    /\ caResult.cells["close"][3] = caDf.cells["close"][3]

---------------------------------------------------------------------------
(* handle_missing_data                                                     *)

MdMaxLen == 5
MdMaxLimit == 2

MdColumns == {"close", "volume"}

\* the defined cell of a column on its i-th row; the rows differ
MdCell(c, i) == IF c = "close" THEN <<10 + i, 1>> ELSE <<100 * i, 1>>

\* the frames of n rows: each cell is defined or missing
MdFrames(n) ==
    {[c \in MdColumns |-> [i \in 1..n |-> IF i \in missing[c] THEN NaN ELSE MdCell(c, i)]] :
        missing \in [MdColumns -> SUBSET (1..n)]}

Methods == {"ffill", "bfill", "interpolate", "nearest"}
Limits == {None} \cup {Some(l) : l \in 0..MdMaxLimit}

MdIdle ==
    /\ mdDf = <<>> /\ method = "" /\ limit = None /\ mdResult = <<>>
    /\ mdWarned = FALSE /\ mdPc = "idle"

MdInit ==
    /\ \E n \in 0..MdMaxLen : mdDf \in MdFrames(n)
    /\ method \in Methods
    /\ limit \in Limits
    /\ mdResult = <<>>
    /\ mdWarned = FALSE
    /\ mdPc = "call"

Reverse(seq) == [i \in 1..Len(seq) |-> seq[Len(seq) + 1 - i]]

\* pandas validate_limit: no limit stands for the number of rows
Lim(values, lmt) == IF lmt = None THEN Len(values) ELSE Get(lmt)

RECURSIVE PadFrom(_, _, _, _)
\* pandas pad_inplace: val is the last defined value met, fill_count the
\* number of cells filled since
PadFrom(values, val, fill_count, lim) ==
    IF values = <<>> THEN <<>>
    ELSE IF IsNaN(Head(values))
         THEN IF fill_count >= lim
              THEN <<NaN>> \o PadFrom(Tail(values), val, fill_count, lim)
              ELSE <<val>> \o PadFrom(Tail(values), val, fill_count + 1, lim)
         ELSE <<Head(values)>> \o PadFrom(Tail(values), Head(values), 0, lim)

\* mutant: the limit is ignored
PadNoLimit(values, lmt) ==
    PadFrom(values, IF values = <<>> THEN NaN ELSE values[1], 0, Len(values))

\* Series.ffill(limit=limit)
Pad(values, lmt) ==
    PadFrom(values, IF values = <<>> THEN NaN ELSE values[1], 0, Lim(values, lmt))

\* Series.bfill(limit=limit): the same pass from the last row to the first
Backfill(values, lmt) == Reverse(Pad(Reverse(values), lmt))

\* Series.interpolate(method='linear', limit=limit), forward: a missing
\* cell within the limit of the defined cell before it gets the value on the
\* line to the next defined cell, or the last defined value if none follows
Interpolate(values, lmt) ==
    [i \in 1..Len(values) |->
        IF ~IsNaN(values[i]) THEN values[i]
        ELSE LET before == {j \in 1..(i - 1) : ~IsNaN(values[j])}
                 after == {j \in (i + 1)..Len(values) : ~IsNaN(values[j])}
                 a == CHOOSE j \in before : \A k \in before : k <= j
                 b == CHOOSE j \in after : \A k \in after : j <= k
             IN  IF before = {} THEN NaN
                 ELSE IF i - a > Lim(values, lmt) THEN NaN
                 ELSE IF after = {} THEN values[a]
                 ELSE FAdd(values[a],
                           FMul(FSub(values[b], values[a]), Frac(i - a, b - a)))]

\* pandas rejects a limit below 1 with ValueError; on a frame without rows
\* the limit may go unchecked
LimitRejected == limit # None /\ Get(limit) < 1
MayReturn == ~LimitRejected \/ \A c \in DOMAIN mdDf : mdDf[c] = <<>>

MdRaiseLimit ==
    /\ mdPc = "call"
    /\ LimitRejected
    /\ mdPc' = "raised"
    /\ mdWarned' = (method \notin {"ffill", "bfill", "interpolate"})
    /\ UNCHANGED <<mdDf, method, limit, mdResult>>
    /\ UNCHANGED mdOthers

\* lines 133-134
MdFfill ==
    /\ mdPc = "call" /\ method = "ffill" /\ MayReturn
    /\ mdResult' = [c \in DOMAIN mdDf |-> Pad(mdDf[c], limit)]
    /\ mdPc' = "returned"
    /\ UNCHANGED <<mdDf, method, limit, mdWarned>>
    /\ UNCHANGED mdOthers

\* lines 135-136
MdBfill ==
    /\ mdPc = "call" /\ method = "bfill" /\ MayReturn
    /\ mdResult' = [c \in DOMAIN mdDf |-> Backfill(mdDf[c], limit)]
    /\ mdPc' = "returned"
    /\ UNCHANGED <<mdDf, method, limit, mdWarned>>
    /\ UNCHANGED mdOthers

\* lines 137-138
MdInterpolate ==
    /\ mdPc = "call" /\ method = "interpolate" /\ MayReturn
    /\ mdResult' = [c \in DOMAIN mdDf |-> Interpolate(mdDf[c], limit)]
    /\ mdPc' = "returned"
    /\ UNCHANGED <<mdDf, method, limit, mdWarned>>
    /\ UNCHANGED mdOthers

\* lines 139-141: any other method is warned about and forward filled
MdUnknownMethod ==
    /\ mdPc = "call" /\ method \notin {"ffill", "bfill", "interpolate"} /\ MayReturn
    /\ mdWarned' = TRUE
    /\ mdResult' = [c \in DOMAIN mdDf |-> Pad(mdDf[c], limit)]
    /\ mdPc' = "returned"
    /\ UNCHANGED <<mdDf, method, limit>>
    /\ UNCHANGED mdOthers

MdNext == MdFfill \/ MdBfill \/ MdInterpolate \/ MdUnknownMethod \/ MdRaiseLimit

\* a defined cell `distance` rows away is within the limit
WithinLimit(distance) == limit = None \/ distance <= Get(limit)

\* C10: forward fill with limit L leaves every defined cell as it was and
\* gives a missing cell the value of the nearest defined cell before it if
\* that cell is at most L rows back (the first min(k, L) of a run of k), and
\* leaves it missing otherwise, also when no defined cell precedes it;
\* backward fill does the same from the nearest defined cell after it.
C10_FillWithinLimit ==
    (mdPc = "returned" /\ method \in {"ffill", "bfill"}) =>
        \A c \in DOMAIN mdDf :
            /\ Len(mdResult[c]) = Len(mdDf[c])
            /\ \A i \in 1..Len(mdDf[c]) :
                 LET old == mdDf[c]
                     side == IF method = "ffill" THEN 1..(i - 1) ELSE (i + 1)..Len(old)
                     defined == {j \in side : ~IsNaN(old[j])}
                     near == CHOOSE j \in defined : \A k \in defined : Abs(i - j) <= Abs(i - k)
                 IN  IF ~IsNaN(old[i]) THEN mdResult[c][i] = old[i]
                     ELSE IF defined # {} /\ WithinLimit(Abs(i - near))
                          THEN mdResult[c][i] = old[near]
                          ELSE IsNaN(mdResult[c][i])

\* C10 witness: forward fill with limit 1 over a run of two missing closes
\* after a defined one and a leading missing close
C10_Witness ==
    /\ mdPc = "returned" /\ method = "ffill" /\ limit = Some(1)
    /\ mdDf["close"] = <<NaN, <<12, 1>>, NaN, NaN, <<15, 1>>>>
    /\ mdResult["close"] = <<NaN, <<12, 1>>, <<12, 1>>, NaN, <<15, 1>>>>

---------------------------------------------------------------------------
(* indicators.py: the indicator functions on pandas Series                 *)

\* Series.shift(period): the first `period` cells become missing
Shift(series, period) ==
    [i \in 1..Len(series) |-> IF i > period THEN series[i - period] ELSE NaN]

\* Series.diff()
Diff(series) == [i \in 1..Len(series) |-> XSub(series[i], Shift(series, 1)[i])]

\* the cells of the window of `period` rows ending at row i
Window(series, i, period) == [k \in 1..period |-> series[i - period + k]]

RECURSIVE XSum(_)
XSum(cells) == IF cells = <<>> THEN FZero ELSE XAdd(Head(cells), XSum(Tail(cells)))

\* rolling(window=period, min_periods=period): a window is valued once it
\* holds `period` rows none of which is missing
WindowValid(series, i, period) ==
    i >= period /\ \A k \in (i - period + 1)..i : ~IsNaN(series[k])

\* mutant: min_periods=1, the mean of the rows the window holds so far
SmaMinPeriodsOne(series, period) ==
    [i \in 1..Len(series) |->
        LET first == IF i > period THEN i - period + 1 ELSE 1
            cells == SubSeq(series, first, i)
        IN  IF \A k \in first..i : ~IsNaN(series[k])
            THEN XDiv(XSum(cells), <<Len(cells), 1>>)
            ELSE NaN]

\* sma: series.rolling(window=period, min_periods=period).mean()
Sma(series, period) ==
    [i \in 1..Len(series) |->
        IF WindowValid(series, i, period)
        THEN XDiv(XSum(Window(series, i, period)), <<period, 1>>)
        ELSE NaN]

\* the sample variance (ddof = 1) of the cells; missing for a single cell
SampleVariance(cells) ==
    LET n == Len(cells)
        mean == XDiv(XSum(cells), <<n, 1>>)
        squares == [k \in 1..n |-> XMul(XSub(cells[k], mean), XSub(cells[k], mean))]
    IN  IF n < 2 THEN NaN ELSE XDiv(XSum(squares), <<n - 1, 1>>)

\* volatility: series.rolling(window=period, min_periods=period).std();
\* a standard deviation is held as its square, the sample variance
Volatility(series, period) ==
    [i \in 1..Len(series) |->
        IF WindowValid(series, i, period)
        THEN SampleVariance(Window(series, i, period))
        ELSE NaN]

\* one step of pandas' ewm mean (adjust=False, ignore_na=False) on cell cur
EwmStep(st, cur, alpha) ==
    LET is_observation == ~IsNaN(cur)
        nobs == st.nobs + (IF is_observation THEN 1 ELSE 0)
        old_wt == XMul(st.old_wt, XSub(FOne, alpha))
    IN  IF ~IsNaN(st.weighted)
        THEN IF is_observation
             THEN [weighted |-> IF ~XEq(st.weighted, cur)
                                THEN XDiv(XAdd(XMul(old_wt, st.weighted), XMul(alpha, cur)),
                                          XAdd(old_wt, alpha))
                                ELSE st.weighted,
                   old_wt |-> FOne, nobs |-> nobs]
             ELSE [weighted |-> st.weighted, old_wt |-> old_wt, nobs |-> nobs]
        ELSE [weighted |-> cur, old_wt |-> st.old_wt, nobs |-> nobs]

RECURSIVE EwmState(_, _, _)
\* the state of the ewm pass after row i
EwmState(vals, i, alpha) ==
    IF i = 1
    THEN [weighted |-> vals[1], old_wt |-> FOne,
          nobs |-> IF IsNaN(vals[1]) THEN 0 ELSE 1]
    ELSE EwmStep(EwmState(vals, i - 1, alpha), vals[i], alpha)

\* series.ewm(span=period, adjust=False, min_periods=period).mean()
Ewm(vals, period) ==
    [i \in 1..Len(vals) |->
        LET st == EwmState(vals, i, <<2, period + 1>>)
        IN  IF st.nobs >= period THEN st.weighted ELSE NaN]

\* mutant: the average is reported from the first row on
EmaFromFirstRow(series, period) == Ewm(series, 1)

\* ema
Ema(series, period) == Ewm(series, period)

\* mutant: missing values are left as they are
FillNaSkipped(cell, value) == cell

\* Series.fillna(value)
FillNa(cell, value) == IF IsNaN(cell) THEN value ELSE cell

\* rsi
Rsi(series, period) ==
    LET delta == Diff(series)
        gains == [i \in DOMAIN delta |-> IF XLt(FZero, delta[i]) THEN delta[i] ELSE FZero]
        losses == [i \in DOMAIN delta |->
                      XNeg(IF XLt(delta[i], FZero) THEN delta[i] ELSE FZero)]
        avg_gain == Ewm(gains, period)
        avg_loss == Ewm(losses, period)
    IN  [i \in DOMAIN delta |->
            LET rs == XDiv(avg_gain[i], avg_loss[i])
                    IN  FillNa(XSub(<<100, 1>>, XDiv(<<100, 1>>, XAdd(FOne, rs))), <<100, 1>>)]

\* macd: (macd_line, signal_line, histogram)
Macd(series, fast_period, slow_period, signal_period) ==
    LET macd_line == [i \in DOMAIN series |->
                         XSub(Ema(series, fast_period)[i], Ema(series, slow_period)[i])]
        signal_line == Ema(macd_line, signal_period)
    IN  <<macd_line, signal_line,
          [i \in DOMAIN series |-> XSub(macd_line[i], signal_line[i])]>>

\* the largest of the cells that are not missing (DataFrame.max(axis=1))
RowMax(cells) ==
    LET present == {k \in DOMAIN cells : ~IsNaN(cells[k])}
    IN  IF present = {} THEN NaN
        ELSE cells[CHOOSE k \in present : \A j \in present : XLe(cells[j], cells[k])]

\* atr
Atr(high, low, close, period) ==
    LET prev == Shift(close, 1)
        true_range == [i \in DOMAIN high |->
                          RowMax(<<XSub(high[i], low[i]),
                                   XAbs(XSub(high[i], prev[i])),
                                   XAbs(XSub(low[i], prev[i]))>>)]
    IN  Ewm(true_range, period)

\* mutant: +DM is every rise of the high
PlusDmAnyRise(high, low) ==
    [i \in DOMAIN high |-> IF XLt(FZero, Diff(high)[i]) THEN Diff(high)[i] ELSE FZero]

\* adx: +DM and -DM
PlusDm(high, low) ==
    [i \in DOMAIN high |->
        IF XLt(XNeg(Diff(low)[i]), Diff(high)[i]) /\ XLt(FZero, Diff(high)[i])
        THEN Diff(high)[i] ELSE FZero]
MinusDm(high, low) ==
    [i \in DOMAIN high |->
        IF XLt(Diff(high)[i], XNeg(Diff(low)[i])) /\ XLt(FZero, XNeg(Diff(low)[i]))
        THEN XNeg(Diff(low)[i]) ELSE FZero]
\* adx: +DI and -DI, 100 * (smoothed DM / ATR)
Di(dm_average, atr_value) == XMul(<<100, 1>>, XDiv(dm_average, atr_value))
\* adx: DX = 100 * |+DI - -DI| / (+DI + -DI)
Dx(plus_di, minus_di) ==
    XDiv(XMul(<<100, 1>>, XAbs(XSub(plus_di, minus_di))), XAdd(plus_di, minus_di))

\* The values are exact fractions; a float that the rounding of the
\* division has put above the exact value x is held as <<x[1], x[2], 1>>.
RoundedAbove(x) == <<x[1], x[2], 1>>
IsRoundedAbove(x) == Len(x) = 3
\* adx: the float DX, 100 * abs(plus_di - minus_di) / (plus_di + minus_di),
\* of a day is above 100 although the exact quotient is 100: so it is for
\* +DI = 100 * (13 / 15) = 86.66666666666667 and -DI = 100 * (0 / 15) = 0,
\* where 100 * 86.66666666666667 = 8666.666666666668 and the quotient is
\* 100.00000000000001. The table is for period 1, where the three arguments
\* are the day's own +DM, -DM and true range; on the other frames below no
\* day has a float DX above 100 with period 1, and no float ADX is above 100
\* with a longer period
DxAboveHundred(plus_dm, minus_dm, true_range) ==
    plus_dm = <<13, 1>> /\ minus_dm = FZero /\ true_range = <<15, 1>>

\* adx; with period 1 the smoothing factor is 1 and every ewm mean is the
\* value of the day itself, the float DX included
Adx(high, low, close, period) ==
    LET atr_values == Atr(high, low, close, period)
        plus_avg == Ewm(PlusDm(high, low), period)
        minus_avg == Ewm(MinusDm(high, low), period)
        dx == [i \in DOMAIN high |->
                  FillNa(Dx(Di(plus_avg[i], atr_values[i]),
                            Di(minus_avg[i], atr_values[i])),
                         FZero)]
        exact == Ewm(dx, period)
    IN  [i \in DOMAIN high |->
            IF period = 1 /\ DxAboveHundred(plus_avg[i], minus_avg[i], atr_values[i])
            THEN RoundedAbove(exact[i]) ELSE exact[i]]

RECURSIVE CumSum(_, _)
\* Series.cumsum(): a missing cell stays missing and is left out of the sum
CumSum(cells, sum) ==
    IF cells = <<>> THEN <<>>
    ELSE IF IsNaN(Head(cells)) THEN <<NaN>> \o CumSum(Tail(cells), sum)
    ELSE <<XAdd(sum, Head(cells))>> \o CumSum(Tail(cells), XAdd(sum, Head(cells)))

\* mutant: the volume is added whichever way the price moved
ObvUnsigned(close, volume) ==
    CumSum([i \in DOMAIN volume |->
               IF XLt(FZero, Diff(close)[i]) \/ XLt(Diff(close)[i], FZero)
               THEN volume[i] ELSE FZero], FZero)

\* obv
Obv(close, volume) ==
    LET price_change == Diff(close)
        obv_values == [i \in DOMAIN volume |->
                          XSub(IF XLt(FZero, price_change[i]) THEN volume[i] ELSE FZero,
                               IF XLt(price_change[i], FZero) THEN volume[i] ELSE FZero)]
    IN  CumSum(obv_values, FZero)

\* momentum, were np bound to numpy: zeros of the shifted series are
\* replaced by missing values before the division
Momentum(series, period) ==
    LET shifted == Shift(series, period)
    IN  [i \in DOMAIN series |->
            XMul(XDiv(XSub(series[i], shifted[i]),
                      IF IsZero(shifted[i]) THEN NaN ELSE shifted[i]),
                 <<100, 1>>)]

IndMaxLen == 4
IndMaxPeriod == 3

\* the rows a price frame is made of: flat, rising and falling days, a day
\* closing at zero and a day with every value missing
Bar(open, high, low, close, volume) ==
    [open |-> open, high |-> high, low |-> low, close |-> close, volume |-> volume]
Bars ==
    {Bar(<<0, 1>>, <<1, 1>>, <<0, 1>>, <<0, 1>>, <<4, 1>>),
     Bar(<<1, 1>>, <<1, 1>>, <<1, 1>>, <<1, 1>>, <<1, 1>>),
     Bar(<<1, 1>>, <<3, 1>>, <<1, 1>>, <<2, 1>>, <<2, 1>>),
     Bar(<<2, 1>>, <<3, 1>>, <<2, 1>>, <<3, 1>>, <<3, 1>>),
     Bar(NaN, NaN, NaN, NaN, NaN)}

\* two days of which the second has a much higher high
SteepRise ==
    <<Bar(<<0, 1>>, <<2, 1>>, <<0, 1>>, <<0, 1>>, <<1, 1>>),
      Bar(<<0, 1>>, <<15, 1>>, <<0, 1>>, <<0, 1>>, <<1, 1>>)>>
\* a day whose high is above and whose low is below those of the days in Bars
WideDay == Bar(<<1, 1>>, <<4, 1>>, <<0, 1>>, <<2, 1>>, <<2, 1>>)
\* the frames for adx in which the high and the low move on the same day:
\* the high by more, the low by more, both by as much, and a narrow day
\* between two wide ones
AdxFrames ==
    {SteepRise,
     <<Bar(<<1, 1>>, <<1, 1>>, <<1, 1>>, <<1, 1>>, <<1, 1>>), WideDay>>,
     <<Bar(<<2, 1>>, <<3, 1>>, <<2, 1>>, <<3, 1>>, <<3, 1>>), WideDay>>,
     <<Bar(<<1, 1>>, <<3, 1>>, <<1, 1>>, <<2, 1>>, <<2, 1>>), WideDay>>,
     <<WideDay, Bar(<<1, 1>>, <<1, 1>>, <<1, 1>>, <<1, 1>>, <<1, 1>>), WideDay>>}

\* the frame of the given columns over the rows
IndFrame(columns, rows) == [c \in columns |-> [i \in DOMAIN rows |-> rows[i][c]]]

\* the functions taking a period, and the column sets handed to
\* compute_all_indicators
PeriodFunctions ==
    {"sma", "ema", "rsi", "macd", "atr", "adx", "momentum", "volatility"}
ColumnSets ==
    {OHLCV, OHLCV \ {"high"}, OHLCV \ {"low"}, OHLCV \ {"high", "low"},
     OHLCV \ {"volume"}, {"close"}, OHLCV \ {"close"}}

IndIdle ==
    /\ indFn = "" /\ indDf = <<>> /\ indPeriod = 0 /\ indResult = <<>>
    /\ indError = "" /\ indPc = "idle"

IndInit ==
    /\ \/ \E n \in 0..IndMaxLen : \E rows \in [1..n -> Bars] :
             \/ /\ indFn \in PeriodFunctions
                /\ indPeriod \in 1..IndMaxPeriod
                /\ indDf = IndFrame(OHLCV, rows)
             \/ /\ indFn = "obv"
                /\ indPeriod = 0
                /\ indDf = IndFrame(OHLCV, rows)
             \/ /\ indFn = "compute_all_indicators"
                /\ indPeriod = 0
                /\ \E columns \in ColumnSets : indDf = IndFrame(columns, rows)
       \/ /\ indFn = "adx"
          /\ indPeriod \in 1..IndMaxPeriod
          /\ \E rows \in AdxFrames : indDf = IndFrame(OHLCV, rows)
    /\ indResult = <<>>
    /\ indError = ""
    /\ indPc = "call"

\* a call of a function returns its result
IndReturn(result) ==
    /\ indPc = "call"
    /\ indResult' = result
    /\ indPc' = "returned"
    /\ UNCHANGED <<indFn, indDf, indPeriod, indError>>
    /\ UNCHANGED indOthers

\* a call of a function raises
IndRaise(error) ==
    /\ indPc = "call"
    /\ indError' = error
    /\ indPc' = "raised"
    /\ UNCHANGED <<indFn, indDf, indPeriod, indResult>>
    /\ UNCHANGED indOthers

CallSma == indFn = "sma" /\ IndReturn(Sma(indDf.close, indPeriod))
CallEma == indFn = "ema" /\ IndReturn(Ema(indDf.close, indPeriod))
CallRsi == indFn = "rsi" /\ IndReturn(Rsi(indDf.close, indPeriod))
CallMacd == indFn = "macd" /\ IndReturn(Macd(indDf.close, indPeriod, indPeriod + 1, indPeriod))
CallAtr == indFn = "atr" /\ IndReturn(Atr(indDf.high, indDf.low, indDf.close, indPeriod))
CallAdx == indFn = "adx" /\ IndReturn(Adx(indDf.high, indDf.low, indDf.close, indPeriod))
CallVolatility == indFn = "volatility" /\ IndReturn(Volatility(indDf.close, indPeriod))
CallObv == indFn = "obv" /\ IndReturn(Obv(indDf.close, indDf.volume))

\* momentum: line 199 reads np
CallMomentum ==
    /\ indFn = "momentum"
    /\ IF NpBound THEN IndReturn(Momentum(indDf.close, indPeriod))
       ELSE IndRaise("NameError")

\* the columns compute_all_indicators adds
CloseIndicators ==
    {"sma_10", "sma_50", "sma_200", "ema_20", "ema_50", "rsi_14",
     "macd", "macd_signal", "macd_histogram", "momentum_20", "volatility_30"}
HighLowIndicators == {"atr_14", "atr_volatility", "adx_14"}
VolumeIndicators == {"obv"}

\* the columns of the frame compute_all_indicators builds from df
AllColumns(df) ==
    DOMAIN df \cup CloseIndicators
    \cup (IF "high" \in DOMAIN df /\ "low" \in DOMAIN df THEN HighLowIndicators ELSE {})
    \cup (IF "volume" \in DOMAIN df THEN VolumeIndicators ELSE {})

\* atr_volatility = atr_14 / close
AtrVolatility(atr_14, close) == [i \in DOMAIN close |-> XDiv(atr_14[i], close[i])]

\* the column named c of the frame compute_all_indicators builds from df
IndicatorColumn(df, c) ==
    CASE c = "sma_10" -> Sma(df.close, 10)
      [] c = "sma_50" -> Sma(df.close, 50)
      [] c = "sma_200" -> Sma(df.close, 200)
      [] c = "ema_20" -> Ema(df.close, 20)
      [] c = "ema_50" -> Ema(df.close, 50)
      [] c = "rsi_14" -> Rsi(df.close, 14)
      [] c = "macd" -> Macd(df.close, 12, 26, 9)[1]
      [] c = "macd_signal" -> Macd(df.close, 12, 26, 9)[2]
      [] c = "macd_histogram" -> Macd(df.close, 12, 26, 9)[3]
      [] c = "atr_14" -> Atr(df.high, df.low, df.close, 14)
      [] c = "atr_volatility" -> AtrVolatility(Atr(df.high, df.low, df.close, 14), df.close)
      [] c = "adx_14" -> Adx(df.high, df.low, df.close, 14)
      [] c = "momentum_20" -> Momentum(df.close, 20)
      [] c = "volatility_30" -> Volatility(df.close, 30)
      [] c = "obv" -> Obv(df.close, df.volume)
      [] OTHER -> df[c]

\* compute_all_indicators, were every call in it to return: a copy of df
\* with the indicator columns added
AllIndicators(df) == [c \in AllColumns(df) |-> IndicatorColumn(df, c)]

\* the exception compute_all_indicators raises on df, "" if none: KeyError
\* at df['close'] (line 261), NameError in momentum (line 289)
AllIndicatorsError(df) ==
    IF "close" \notin DOMAIN df THEN "KeyError"
    ELSE IF ~NpBound THEN "NameError"
    ELSE ""

ComputeAllIndicators ==
    /\ indFn = "compute_all_indicators"
    /\ IF AllIndicatorsError(indDf) = ""
       THEN IndReturn(AllIndicators(indDf))
       ELSE IndRaise(AllIndicatorsError(indDf))

IndNext ==
    \/ CallSma \/ CallEma \/ CallRsi \/ CallMacd \/ CallAtr \/ CallAdx
    \/ CallMomentum \/ CallVolatility \/ CallObv \/ ComputeAllIndicators

IndDone(fn) == indFn = fn /\ indPc # "call"
IndRows == Len(indDf[CHOOSE c \in DOMAIN indDf : TRUE])

\* C12 as stated: every indicator function, and compute_all_indicators on a
\* frame that has its close column, returns (it does not raise), and what
\* it returns has one value per input row: each series of the result, each
\* of the three series of macd, each column of the frame.
C12_SameLengthNoRaise ==
    (indPc # "call" /\ "close" \in DOMAIN indDf) =>
        /\ indPc = "returned"
        /\ IF indFn = "macd" THEN \A k \in 1..3 : Len(indResult[k]) = IndRows
           ELSE IF indFn = "compute_all_indicators"
                THEN \A c \in DOMAIN indResult : Len(indResult[c]) = IndRows
                ELSE Len(indResult) = IndRows

\* C13 as stated: compute_all_indicators on a frame with a close column
\* returns a frame holding the close-only indicator columns, holding
\* atr_14, atr_volatility and adx_14 exactly when the input has both high
\* and low, and holding obv exactly when the input has volume.
C13_ColumnsByInput ==
    (IndDone("compute_all_indicators") /\ "close" \in DOMAIN indDf) =>
        /\ indPc = "returned"
        /\ {"sma_10", "sma_50", "sma_200", "ema_20", "ema_50", "rsi_14", "macd",
            "macd_signal", "macd_histogram", "momentum_20", "volatility_30"}
              \subseteq DOMAIN indResult
        /\ \A c \in {"atr_14", "atr_volatility", "adx_14"} :
              c \in DOMAIN indResult <=> {"high", "low"} \subseteq DOMAIN indDf
        /\ "obv" \in DOMAIN indResult <=> "volume" \in DOMAIN indDf

\* the p cells of the close series up to row i
LastCells(i, p) == [k \in 1..p |-> indDf.close[i - p + k]]
\* p * p * (p - 1) times the sample variance of the cells
ScaledSquares(cells) ==
    XSum([k \in DOMAIN cells |->
             XMul(XSub(XMul(<<Len(cells), 1>>, cells[k]), XSum(cells)),
                  XSub(XMul(<<Len(cells), 1>>, cells[k]), XSum(cells)))])

\* C14: sma and volatility return one value per input row; the first p-1
\* are missing; the value at a later row is the arithmetic mean, resp. the
\* sample standard deviation (held as its square), of the p values up to
\* that row, missing when one of them is missing or, for the deviation,
\* when p = 1; a series shorter than p gives missing values only.
C14_RollingWindow ==
    (indPc = "returned" /\ indFn \in {"sma", "volatility"}) =>
        /\ Len(indResult) = Len(indDf.close)
        /\ \A i \in 1..Len(indDf.close) :
              LET p == indPeriod
                  defined == \A k \in 1..p : LastCells(i, p)[k] # NaN
              IN  IF i < p THEN indResult[i] = NaN
                  ELSE IF ~defined THEN indResult[i] = NaN
                  ELSE IF indFn = "sma"
                       THEN XEq(XMul(<<p, 1>>, indResult[i]), XSum(LastCells(i, p)))
                       ELSE IF p = 1 THEN indResult[i] = NaN
                            ELSE XEq(XMul(<<p * p * (p - 1), 1>>, indResult[i]),
                                     ScaledSquares(LastCells(i, p)))

\* C14 witness: sma over two rows of closes 1, 2, 3: missing, 3/2, 5/2
C14_Witness ==
    /\ indPc = "returned" /\ indFn = "sma" /\ indPeriod = 2
    /\ indDf.close = <<<<1, 1>>, <<2, 1>>, <<3, 1>>>>
    /\ indResult = <<NaN, <<3, 2>>, <<5, 2>>>>

\* the close fell on row j
LossAt(j) == j > 1 /\ XLt(indDf.close[j], indDf.close[j - 1])

\* C15: every rsi value is a number within [0, 100], and it is exactly 100
\* wherever the smoothed average loss is zero: where no loss has occurred
\* up to the row (with period 1 the average is the row's own loss).
C15_RsiRange ==
    (indPc = "returned" /\ indFn = "rsi") =>
        \A i \in 1..Len(indDf.close) :
            /\ IsFinite(indResult[i])
            /\ XLe(FZero, indResult[i]) /\ XLe(indResult[i], <<100, 1>>)
            /\ (IF indPeriod = 1 THEN ~LossAt(i) ELSE \A j \in 1..i : ~LossAt(j))
                  => indResult[i] = <<100, 1>>

\* C15 witness: closes 1, 2, 3 with period 2: the average loss is zero and
\* the average gain positive on rows 2 and 3, where rsi is 100
C15_Witness ==
    /\ indPc = "returned" /\ indFn = "rsi" /\ indPeriod = 2
    /\ indDf.close = <<<<1, 1>>, <<2, 1>>, <<3, 1>>>>
    /\ indResult = <<<<100, 1>>, <<100, 1>>, <<100, 1>>>>

\* C27: rsi is undefined on every warm-up row, the rows that have fewer than
\* period observations behind them; 100 stands only where the average loss
\* is zero, never for missing history.
C27_RsiWarmUpUndefined ==
    (indPc = "returned" /\ indFn = "rsi") =>
        \A i \in 1..Len(indDf.close) : i < indPeriod => IsNaN(indResult[i])

\* the series has no missing value
FullyDefined(series) == \A i \in DOMAIN series : ~IsNaN(series[i])
\* the series is missing on exactly its first k rows
UndefinedExactlyOnFirst(series, k) ==
    \A i \in DOMAIN series : IsNaN(series[i]) <=> i <= k

\* C28: on a series without missing values, ema(series, p) is missing on
\* exactly the first p - 1 rows; macd with fast <= slow returns three series
\* as long as the input, the MACD line missing on exactly the first slow - 1
\* rows, the signal line and the histogram on exactly the first
\* (slow - 1) + (signal - 1) rows, and the histogram is the MACD line minus
\* the signal line on every row where both are present.
C28_MacdWarmUp ==
    (indPc = "returned" /\ FullyDefined(indDf.close)) =>
        /\ indFn = "ema" =>
              /\ Len(indResult) = Len(indDf.close)
              /\ UndefinedExactlyOnFirst(indResult, indPeriod - 1)
        /\ indFn = "macd" =>
              LET slow == indPeriod + 1
                  signal == indPeriod
              IN  /\ Len(indResult) = 3
                  /\ \A k \in 1..3 : Len(indResult[k]) = Len(indDf.close)
                  /\ UndefinedExactlyOnFirst(indResult[1], slow - 1)
                  /\ UndefinedExactlyOnFirst(indResult[2], (slow - 1) + (signal - 1))
                  /\ UndefinedExactlyOnFirst(indResult[3], (slow - 1) + (signal - 1))
                  /\ \A i \in 1..Len(indDf.close) :
                        i > (slow - 1) + (signal - 1) =>
                            FEq(indResult[3][i], FSub(indResult[1][i], indResult[2][i]))

\* C28 witness: macd(close, 2, 3, 2) on the closes 1, 2, 3, 2: the MACD line
\* starts on row 3, the signal line and the histogram on row 4
C28_Witness ==
    /\ indPc = "returned" /\ indFn = "macd" /\ indPeriod = 2
    /\ indDf.close = <<<<1, 1>>, <<2, 1>>, <<3, 1>>, <<2, 1>>>>
    /\ IsNaN(indResult[1][2]) /\ ~IsNaN(indResult[1][3])
    /\ IsNaN(indResult[2][3]) /\ ~IsNaN(indResult[2][4])
    /\ ~IsNaN(indResult[3][4])

\* the rise of the high and the fall of the low on row i, both known
MovesKnown(i) ==
    /\ i > 1
    /\ ~IsNaN(indDf.high[i]) /\ ~IsNaN(indDf.high[i - 1])
    /\ ~IsNaN(indDf.low[i]) /\ ~IsNaN(indDf.low[i - 1])
HighRise(i) == FSub(indDf.high[i], indDf.high[i - 1])
LowFall(i) == FSub(indDf.low[i - 1], indDf.low[i])

\* what C29 says of +DM, -DM and DX on row i
DirectionalMoves(i) ==
    LET plus_dm == PlusDm(indDf.high, indDf.low)
        minus_dm == MinusDm(indDf.high, indDf.low)
        atr_values == Atr(indDf.high, indDf.low, indDf.close, indPeriod)
        plus_di == Di(Ewm(plus_dm, indPeriod)[i], atr_values[i])
        minus_di == Di(Ewm(minus_dm, indPeriod)[i], atr_values[i])
    IN  /\ plus_dm[i] = FZero \/ minus_dm[i] = FZero
        /\ plus_dm[i] =
              IF MovesKnown(i) /\ FLt(FZero, HighRise(i)) /\ FLt(LowFall(i), HighRise(i))
              THEN HighRise(i) ELSE FZero
        /\ minus_dm[i] =
              IF MovesKnown(i) /\ FLt(FZero, LowFall(i)) /\ FLt(HighRise(i), LowFall(i))
              THEN LowFall(i) ELSE FZero
        /\ XEq(XAdd(plus_di, minus_di), FZero)
              => FillNa(Dx(plus_di, minus_di), FZero) = FZero

C29_WitnessBothMove ==
    /\ indPc = "returned" /\ indFn = "adx" /\ indPeriod = 1
    /\ indDf.high = <<<<4, 1>>, <<1, 1>>, <<4, 1>>>>
    /\ indDf.low = <<<<0, 1>>, <<1, 1>>, <<0, 1>>>>
    /\ PlusDm(indDf.high, indDf.low) = <<FZero, FZero, <<3, 1>>>>
    /\ MinusDm(indDf.high, indDf.low) = <<FZero, FZero, FZero>>
    /\ indResult[3] = <<100, 1>>

\* C16 as stated: momentum returns, for every row i past the first p, the
\* percentage (series[i] - series[i-p]) / series[i-p] * 100, and a missing
\* value on the first p rows and wherever series[i-p] is zero.
C16_MomentumFormula ==
    IndDone("momentum") =>
        /\ indPc = "returned"
        /\ \A i \in 1..Len(indDf.close) :
              LET p == indPeriod
              IN  IF i <= p THEN indResult[i] = NaN
                  ELSE IF IsZero(indDf.close[i - p]) THEN indResult[i] = NaN
                  ELSE IF indDf.close[i] = NaN \/ indDf.close[i - p] = NaN
                       THEN indResult[i] = NaN
                       ELSE XEq(XMul(indResult[i], indDf.close[i - p]),
                                XMul(<<100, 1>>, XSub(indDf.close[i], indDf.close[i - p])))

RECURSIVE SignedVolume(_)
\* the sum over the rows j <= i of +volume, -volume or 0 as the close rose,
\* fell or neither
SignedVolume(i) ==
    IF i = 0 THEN FZero
    ELSE XAdd(SignedVolume(i - 1),
              IF i > 1 /\ XLt(indDf.close[i - 1], indDf.close[i]) THEN indDf.volume[i]
              ELSE IF LossAt(i) THEN XNeg(indDf.volume[i])
              ELSE FZero)

\* C17: obv at row i is the running sum, over the rows up to i, of +volume
\* where the close rose, -volume where it fell and 0 elsewhere (the first
\* row included); so with positive volumes it never decreases over strictly
\* increasing closes and never increases over strictly decreasing ones.
C17_RunningSignedVolume ==
    (indPc = "returned" /\ indFn = "obv") =>
        LET n == Len(indDf.close)
            positive == \A i \in 1..n : XLt(FZero, indDf.volume[i])
            rising == \A i \in 2..n : XLt(indDf.close[i - 1], indDf.close[i])
            falling == \A i \in 2..n : XLt(indDf.close[i], indDf.close[i - 1])
        IN  /\ Len(indResult) = n
            /\ \A i \in 1..n : XEq(indResult[i], SignedVolume(i))
            /\ (positive /\ rising) => \A i \in 2..n : XLe(indResult[i - 1], indResult[i])
            /\ (positive /\ falling) => \A i \in 2..n : XLe(indResult[i], indResult[i - 1])

\* C17 witness: closes 1, 2, 1, 3 with volumes 1, 2, 1, 3: obv 0, 2, 1, 4
C17_Witness ==
    /\ indPc = "returned" /\ indFn = "obv"
    /\ indDf.close = <<<<1, 1>>, <<2, 1>>, <<1, 1>>, <<3, 1>>>>
    /\ indResult = <<<<0, 1>>, <<2, 1>>, <<1, 1>>, <<4, 1>>>>

---------------------------------------------------------------------------
(* normalize_and_generate_features                                         *)

NgfMaxLen == 7

\* prices_df: a frame of n dated rows over the given columns, the rows in
\* `missing` holding no value
NgfFrame(columns, n, missing) ==
    [index |-> [i \in 1..n |-> i],
     cells |-> [c \in columns |->
                  [i \in 1..n |-> IF i \in missing THEN NaN ELSE CaCell(c, i)]]]

\* corporate_actions: None, the empty dictionary, or one split
NgfActions == {None, Some(<<>>), Some(<<<<"splits", <<<<3, <<2, 1>>>>>>>>>>)}

NgfIdle ==
    /\ prices_df = CaFrame({}, 0) /\ corporate_actions = None /\ fill_method = ""
    /\ ngfFilled = CaFrame({}, 0) /\ ngfResult = <<>> /\ ngfError = ""
    /\ ngfPc = "idle"

NgfInit ==
    /\ \E n \in 0..NgfMaxLen : \E missing \in SUBSET (1..n) :
          prices_df \in {NgfFrame(OHLCV, n, missing), NgfFrame(OHLCV \ {"close"}, n, missing)}
    /\ corporate_actions \in NgfActions
    /\ fill_method \in Methods
    /\ ngfFilled = CaFrame({}, 0) /\ ngfResult = <<>> /\ ngfError = ""
    /\ ngfPc = "call"

\* handle_missing_data(df, method, limit) for a limit of at least 1
HandleMissingData(cells, fill, lmt) ==
    [c \in DOMAIN cells |->
        CASE fill = "bfill" -> Backfill(cells[c], lmt)
          [] fill = "interpolate" -> Interpolate(cells[c], lmt)
          [] OTHER -> Pad(cells[c], lmt)]

\* lines 190-196: prices_df after the corporate actions (if any) and
\* handle_missing_data(prices_df, method=fill_method, limit=5)
FilledPrices(df, actions, fill) ==
    LET adjusted == IF NoActions(actions) THEN df
                    ELSE ApplyCorporateActions(df, Get(actions))
    IN  [adjusted EXCEPT !.cells = HandleMissingData(adjusted.cells, fill, Some(5))]

\* lines 204-207: every column but the five OHLCV ones is forward filled
\* with limit 10
FfillIndicators(features_df) ==
    [c \in DOMAIN features_df |->
        IF c \in OHLCV THEN features_df[c] ELSE Pad(features_df[c], Some(10))]

\* the call raises inside compute_all_indicators (line 200), after the prices
\* were adjusted and filled
NgfRaise ==
    /\ ngfPc = "call"
    /\ AllIndicatorsError(FilledPrices(prices_df, corporate_actions, fill_method).cells) # ""
    /\ ngfFilled' = FilledPrices(prices_df, corporate_actions, fill_method)
    /\ ngfError' = AllIndicatorsError(ngfFilled'.cells)
    /\ ngfPc' = "raised"
    /\ UNCHANGED <<prices_df, corporate_actions, fill_method, ngfResult>>
    /\ UNCHANGED ngfOthers

\* the call returns the features (never enabled: compute_all_indicators
\* raises on every frame)
NgfReturn ==
    /\ ngfPc = "call"
    /\ AllIndicatorsError(FilledPrices(prices_df, corporate_actions, fill_method).cells) = ""
    /\ ngfFilled' = FilledPrices(prices_df, corporate_actions, fill_method)
    /\ ngfResult' = FfillIndicators(AllIndicators(ngfFilled'.cells))
    /\ ngfPc' = "returned"
    /\ UNCHANGED <<prices_df, corporate_actions, fill_method, ngfError>>
    /\ UNCHANGED ngfOthers

\* the steps the call can take
NgfNext == NgfRaise

\* C11 as stated: a call on a frame that has its close column returns; the
\* OHLCV columns of the returned frame are those of the prices after the
\* limit-5 fill that preceded the indicators, the later limit-10 forward
\* fill having changed none of them; under forward fill a missing price
\* holds the nearest earlier price (adjusted for the corporate actions) when
\* that price is at most 5 rows back and stays missing otherwise.
C11_OhlcvFilledOnce ==
    (ngfPc \notin {"idle", "call"} /\ "close" \in DOMAIN prices_df.cells) =>
        /\ ngfPc = "returned"
        /\ \A c \in OHLCV \cap DOMAIN prices_df.cells :
              /\ ngfResult[c] = ngfFilled.cells[c]
              /\ fill_method = "ffill" =>
                    \A i \in DOMAIN prices_df.index :
                       LET before == {j \in 1..i : ~IsNaN(prices_df.cells[c][j])}
                           last == CHOOSE j \in before : \A k \in before : k <= j
                       IN  IF before = {} THEN IsNaN(ngfResult[c][i])
                           ELSE IF i - last > 5 THEN IsNaN(ngfResult[c][i])
                           ELSE ngfResult[c][i] = ngfResult[c][last]

---------------------------------------------------------------------------
(* normalize_minmax, normalize_zscore                                      *)

NormMaxLen == 4

\* the entries of an input array: finite numbers, NaN and the infinities
NormNumbers == {<<-1, 1>>, <<1, 10>>, <<1, 1>>, <<3, 1>>, NaN, PosInf, NegInf}
\* clip_threshold: 0 switches the clipping off
Thresholds == {<<0, 1>>, <<1, 1>>, <<3, 1>>}

NormIdle ==
    /\ normFn = "" /\ normValues = <<>> /\ clip_threshold = FZero
    /\ normResult = <<>> /\ normPc = "idle"

NormInit ==
    /\ normValues \in SeqsUpTo(NormNumbers, NormMaxLen)
    /\ \/ normFn = "normalize_minmax" /\ clip_threshold = <<3, 1>>
       \/ normFn = "normalize_zscore" /\ clip_threshold \in Thresholds
    /\ normResult = <<>>
    /\ normPc = "call"

\* valid_mask = np.isfinite(values), as the set of positions it selects
ValidMask(array) == {i \in DOMAIN array : IsFinite(array[i])}
\* np.min, np.max of the selected entries
MinOf(array, mask) ==
    array[CHOOSE i \in mask : \A j \in mask : FLe(array[i], array[j])]
MaxOf(array, mask) ==
    array[CHOOSE i \in mask : \A j \in mask : FLe(array[j], array[i])]

\* mutant: equal finite values are mapped to 0
MinmaxEqualToZero(array) ==
    LET valid_mask == ValidMask(array)
    IN  IF valid_mask = {} THEN [i \in DOMAIN array |-> FZero]
        ELSE IF FEq(MaxOf(array, valid_mask), MinOf(array, valid_mask))
             THEN [i \in DOMAIN array |-> FZero]
        ELSE [i \in DOMAIN array |->
                IF i \in valid_mask
                THEN FDiv(FSub(array[i], MinOf(array, valid_mask)),
                          FSub(MaxOf(array, valid_mask), MinOf(array, valid_mask)))
                ELSE FZero]

\* normalize_minmax(values)
NormalizeMinmax(array) ==
    LET valid_mask == ValidMask(array)
    IN  IF valid_mask = {} THEN [i \in DOMAIN array |-> FZero]
        ELSE IF FEq(MaxOf(array, valid_mask), MinOf(array, valid_mask))
             THEN [i \in DOMAIN array |-> IF i \in valid_mask THEN <<1, 2>> ELSE FZero]
        ELSE [i \in DOMAIN array |->
                IF i \in valid_mask
                THEN FDiv(FSub(array[i], MinOf(array, valid_mask)),
                          FSub(MaxOf(array, valid_mask), MinOf(array, valid_mask)))
                ELSE FZero]

NormReturn(result) ==
    /\ normPc = "call"
    /\ normResult' = result
    /\ normPc' = "returned"
    /\ UNCHANGED <<normFn, normValues, clip_threshold>>
    /\ UNCHANGED normOthers

CallNormalizeMinmax ==
    normFn = "normalize_minmax" /\ NormReturn(NormalizeMinmax(normValues))

\* a z-score is held as <<q, v>>, standing for q / sqrt(v) with v > 0: the
\* standard deviation is the square root of the variance v
ZZero == <<FZero, FOne>>
\* |q / sqrt(v)| > t, for t > 0
ZBeyond(z, t) == FLt(FMul(FMul(t, t), z[2]), FMul(z[1], z[1]))
\* np.clip(z, -t, t)
ClipZ(z, t) ==
    IF ZBeyond(z, t) THEN <<IF z[1][1] > 0 THEN t ELSE FSub(FZero, t), FOne>> ELSE z

\* valid_values = values[valid_mask]
ValidValues(array) == SelectSeq(array, IsFinite)
\* np.mean(valid_values), exactly
MeanOf(valid_values) == FDiv(XSum(valid_values), <<Len(valid_values), 1>>)
\* the square of np.std(valid_values), exactly: the mean squared deviation
VarianceOf(valid_values) ==
    LET mean_val == MeanOf(valid_values)
    IN  FDiv(XSum([i \in DOMAIN valid_values |->
                     FMul(FSub(valid_values[i], mean_val), FSub(valid_values[i], mean_val))]),
             <<Len(valid_values), 1>>)

\* the rounding of np.mean on equal values, as the sign of the computed
\* mean minus the value: in binary64 0.1 + 0.1 + 0.1 is
\* 0.30000000000000004 and a third of it 0.10000000000000002, above 0.1;
\* the mean of six or of seven 0.1 is 0.09999999999999999, below it; the
\* sums of the integers of NormNumbers are exact
MeanRounding(valid_values) ==
    IF \A i \in DOMAIN valid_values : valid_values[i] = <<1, 10>>
    THEN (IF Len(valid_values) = 3 THEN 1
          ELSE IF Len(valid_values) \in {6, 7} THEN -1 ELSE 0)
    ELSE 0

\* std_val == 0: the deviations from the computed mean are all zero
StdIsZero(variance, rounding) == variance = FZero /\ rounding = 0

\* (valid_values - mean_val) / std_val at one entry x; on equal values whose
\* mean was rounded, every deviation is the rounding error e and std_val is
\* |e|, which makes the quotient -1 or +1
ZScoreOf(x, mean_val, variance, rounding) ==
    IF variance = FZero THEN <<Frac(-rounding, 1), FOne>>
    ELSE <<FSub(x, mean_val), variance>>

\* normalize_zscore(values, clip_threshold)
NormalizeZscore(array, threshold) ==
    LET valid_mask == ValidMask(array)
        valid_values == ValidValues(array)
        mean_val == MeanOf(valid_values)
        variance == VarianceOf(valid_values)
        rounding == MeanRounding(valid_values)
    IN  IF valid_mask = {} THEN [i \in DOMAIN array |-> ZZero]
        ELSE IF StdIsZero(variance, rounding) THEN [i \in DOMAIN array |-> ZZero]
        ELSE [i \in DOMAIN array |->
                IF i \notin valid_mask THEN ZZero
                ELSE IF FLt(FZero, threshold)
                     THEN ClipZ(ZScoreOf(array[i], mean_val, variance, rounding), threshold)
                     ELSE ZScoreOf(array[i], mean_val, variance, rounding)]

CallNormalizeZscore ==
    normFn = "normalize_zscore" /\ NormReturn(NormalizeZscore(normValues, clip_threshold))

NormNext == CallNormalizeMinmax \/ CallNormalizeZscore

NormDone(fn) == normFn = fn /\ normPc = "returned"
\* the positions of the finite inputs, and those holding the least and the
\* greatest of them
FiniteInputs == {i \in DOMAIN normValues : normValues[i][2] # 0}
LeastInputs ==
    {i \in FiniteInputs : \A j \in FiniteInputs : FLe(normValues[i], normValues[j])}
GreatestInputs ==
    {i \in FiniteInputs : \A j \in FiniteInputs : FLe(normValues[j], normValues[i])}

C18_WitnessEqual ==
    /\ NormDone("normalize_minmax")
    /\ normValues = <<PosInf, <<1, 10>>, <<1, 10>>>>
    /\ normResult = <<FZero, <<1, 2>>, <<1, 2>>>>

RECURSIVE PowerSum(_, _)
\* the sum of the finite inputs among the first n (k = 1), of their squares
\* (k = 2)
PowerSum(n, k) ==
    IF n = 0 THEN FZero
    ELSE FAdd(PowerSum(n - 1, k),
              IF n \notin FiniteInputs THEN FZero
              ELSE IF k = 1 THEN normValues[n] ELSE FMul(normValues[n], normValues[n]))
\* mean and variance of the finite inputs
FiniteMean == FDiv(PowerSum(Len(normValues), 1), <<Cardinality(FiniteInputs), 1>>)
FiniteVariance ==
    FSub(FDiv(PowerSum(Len(normValues), 2), <<Cardinality(FiniteInputs), 1>>),
         FMul(FiniteMean, FiniteMean))
\* the z-score <<q, v>> is no further from zero than t
ZWithin(z, t) == FLe(FMul(z[1], z[1]), FMul(FMul(t, t), z[2]))
\* the z-score <<q, v>> is the number (x - mean) / sqrt(variance)
ZIs(z, x, mean, variance) ==
    /\ FEq(FMul(FMul(z[1], z[1]), variance),
           FMul(FMul(FSub(x, mean), FSub(x, mean)), z[2]))
    /\ (z[1][1] > 0) = FLt(mean, x)
    /\ (z[1][1] < 0) = FLt(x, mean)

\* C19 as stated: normalize_zscore returns one output per input; a
\* non-finite input gives 0; when the finite inputs have zero variance (are
\* all equal) every output is 0; for a clip threshold t > 0 every output is
\* within [-t, +t]; and an output that is not clipped is (x - mean) / std for
\* the mean and the standard deviation of the finite inputs only.
C19_ZscoreClipped ==
    NormDone("normalize_zscore") =>
        /\ Len(normResult) = Len(normValues)
        /\ \A i \in DOMAIN normValues \ FiniteInputs : normResult[i] = ZZero
        /\ (\A i, j \in FiniteInputs : normValues[i] = normValues[j]) =>
              \A i \in DOMAIN normValues : normResult[i] = ZZero
        /\ FLt(FZero, clip_threshold) =>
              \A i \in DOMAIN normValues : ZWithin(normResult[i], clip_threshold)
        /\ (\E i, j \in FiniteInputs : normValues[i] # normValues[j]) =>
              \A i \in FiniteInputs :
                 \/ ZIs(normResult[i], normValues[i], FiniteMean, FiniteVariance)
                 \/ /\ FLt(FZero, clip_threshold)
                    /\ normResult[i][2] = FOne
                    /\ normResult[i][1] \in {clip_threshold, FSub(FZero, clip_threshold)}
                    /\ (normResult[i][1][1] > 0) = FLt(FiniteMean, normValues[i])
                    /\ ~ZWithin(<<FSub(normValues[i], FiniteMean), FiniteVariance>>,
                                clip_threshold)

---------------------------------------------------------------------------
(* ScoringService.normalize_features                                       *)

NfMaxRows == 3

\* the raw values of a feature column
NfNumbers == {<<-1, 1>>, <<1, 10>>, <<3, 1>>, NaN}
\* the eps column, when the table has one
NfEps(n) == [i \in 1..n |-> IF i = 2 THEN NaN ELSE <<i, 1>>]

NfIdle ==
    /\ nfDf = [n |-> 0, cols |-> <<>>] /\ feature_list = <<>>
    /\ scoring_config = <<>> /\ nfResult = [n |-> 0, cols |-> <<>>]
    /\ nfPc = "idle"

\* config['scoring']: both keys may be left out; the table may lack the
\* features of the list
NfInit ==
    /\ \E n \in 0..NfMaxRows : \E rsi \in [1..n -> NfNumbers] :
          nfDf \in {[n |-> n, cols |-> [c \in {"rsi_14", "eps"} |->
                                          IF c = "eps" THEN NfEps(n) ELSE rsi]],
                    [n |-> n, cols |-> [c \in {"rsi_14"} |-> rsi]],
                    [n |-> n, cols |-> [c \in {"eps"} |-> NfEps(n)]]}
    /\ feature_list \in {<<>>, <<"rsi_14">>, <<"rsi_14", "eps">>, <<"eps", "rsi_14">>}
    /\ scoring_config \in [normalization_method : {None, Some("minmax"), Some("zscore")},
                           outlier_threshold : {None, Some(<<0, 1>>), Some(<<1, 1>>)}]
    /\ nfResult = [n |-> 0, cols |-> <<>>]
    /\ nfPc = "call"

\* lines 157-158: the defaults of scoring_config.get
NfMethod(cfg) ==
    IF cfg.normalization_method = None THEN "zscore" ELSE Get(cfg.normalization_method)
NfThreshold(cfg) ==
    IF cfg.outlier_threshold = None THEN <<3, 1>> ELSE Get(cfg.outlier_threshold)

\* a remapped z-score is held as <<a, b, v>>, standing for a + b / sqrt(v)
\* with v > 0; a alone may be NaN or an infinity
Plain(a) == <<a, FZero, FOne>>
Sgn(k) == IF k > 0 THEN 1 ELSE IF k < 0 THEN -1 ELSE 0
\* the sign of a + b / sqrt(v) - c for finite a and a fraction c
SurdCmp(x, c) ==
    LET d == FSub(c, x[1])
        b2 == FMul(x[2], x[2])
        d2v == FMul(FMul(d, d), x[3])
    IN  IF x[2][1] = 0 THEN -Sgn(d[1])
        ELSE IF x[2][1] > 0
             THEN (IF d[1] < 0 THEN 1 ELSE Sgn(FSub(b2, d2v)[1]))
             ELSE (IF d[1] > 0 THEN -1 ELSE Sgn(FSub(d2v, b2)[1]))

\* line 176: (normalized + outlier_threshold) / (2 * outlier_threshold) at
\* one z-score <<q, v>>; a zero threshold divides by zero
Remap(z, threshold) ==
    IF threshold = FZero
    THEN (IF z[1] = FZero THEN Plain(NaN)
          ELSE IF z[1][1] > 0 THEN Plain(PosInf) ELSE Plain(NegInf))
    ELSE IF z[2] = FOne
         THEN Plain(FDiv(FAdd(z[1], threshold), FMul(<<2, 1>>, threshold)))
    ELSE <<<<1, 2>>, FDiv(z[1], FMul(<<2, 1>>, threshold)), z[2]>>

\* line 177: np.clip(normalized, 0, 1) at one value; NaN stays NaN
Clip01(x) ==
    IF IsNaN(x[1]) THEN x
    ELSE IF x[1] = NegInf THEN Plain(FZero)
    ELSE IF x[1] = PosInf THEN Plain(FOne)
    ELSE IF SurdCmp(x, FZero) < 0 THEN Plain(FZero)
    ELSE IF SurdCmp(x, FOne) > 0 THEN Plain(FOne)
    ELSE x

\* lines 169-177: the normalized column of one feature
NormalizedColumn(column, cfg) ==
    IF NfMethod(cfg) = "minmax" THEN NormalizeMinmax(column)
    ELSE LET normalized == NormalizeZscore(column, NfThreshold(cfg))
         IN  [i \in DOMAIN column |-> Clip01(Remap(normalized[i], NfThreshold(cfg)))]

RECURSIVE NormalizeLoop(_, _, _, _)
\* lines 162-179: for feature in feature_list, reading df and writing result
NormalizeLoop(result, df, todo, cfg) ==
    IF todo = <<>> THEN result
    ELSE IF Head(todo) \notin DOMAIN df.cols
         THEN NormalizeLoop(result, df, Tail(todo), cfg)
    ELSE NormalizeLoop(WithColumn(result, NormCol(Head(todo)),
                                  NormalizedColumn(df.cols[Head(todo)], cfg)),
                       df, Tail(todo), cfg)

NormalizeFeatures ==
    /\ nfPc = "call"
    /\ nfResult' = NormalizeLoop(nfDf, nfDf, feature_list, scoring_config)
    /\ nfPc' = "returned"
    /\ UNCHANGED <<nfDf, feature_list, scoring_config>>
    /\ UNCHANGED nfOthers

NfNext == NormalizeFeatures

NfDone == nfPc = "returned"
\* the features of the list that the table has, and the threshold in force
NfPresent == Range(feature_list) \cap DOMAIN nfDf.cols
NfT == IF scoring_config.outlier_threshold = None THEN <<3, 1>>
       ELSE scoring_config.outlier_threshold[1]
NfZscore == scoring_config.normalization_method \in {None, <<"zscore">>}
\* the rows of feature f holding a finite value
NfFinite(f) == {i \in 1..nfDf.n : nfDf.cols[f][i][2] # 0}
RECURSIVE NfPowerSum(_, _, _)
\* the sum of the finite values of f among the first n rows (k = 1), of
\* their squares (k = 2)
NfPowerSum(f, n, k) ==
    IF n = 0 THEN FZero
    ELSE FAdd(NfPowerSum(f, n - 1, k),
              IF n \notin NfFinite(f) THEN FZero
              ELSE IF k = 1 THEN nfDf.cols[f][n]
              ELSE FMul(nfDf.cols[f][n], nfDf.cols[f][n]))
NfMean(f) == FDiv(NfPowerSum(f, nfDf.n, 1), <<Cardinality(NfFinite(f)), 1>>)
NfVariance(f) ==
    FSub(FDiv(NfPowerSum(f, nfDf.n, 2), <<Cardinality(NfFinite(f)), 1>>),
         FMul(NfMean(f), NfMean(f)))
\* q1 / sqrt(v1) = q2 / sqrt(v2)
SameQuotient(q1, v1, q2, v2) ==
    /\ Sgn(q1[1]) = Sgn(q2[1])
    /\ FEq(FMul(FMul(q1, q1), v2), FMul(FMul(q2, q2), v1))
\* the value <<a, b, v>> is 1/2 + d / (2 t sqrt(variance))
IsRemapOf(x, d, t, variance) ==
    /\ x[1][2] # 0
    /\ IF x[2] = FZero
       THEN SameQuotient(FSub(x[1], <<1, 2>>), FOne, FDiv(d, FMul(<<2, 1>>, t)), variance)
       ELSE /\ x[1] = <<1, 2>>
            /\ SameQuotient(x[2], x[3], FDiv(d, FMul(<<2, 1>>, t)), variance)
\* the value <<a, b, v>> is a number of [0, 1]
InUnit(x) == x[1][2] # 0 /\ SurdCmp(x, FZero) >= 0 /\ SurdCmp(x, FOne) <= 0

\* C20 as stated: under the zscore method normalize_features returns the
\* table with one added column norm_<feature> for every feature of the list
\* that the table has, and none for a feature it lacks; the values of the
\* column all lie in [0, 1]; each is the image of the clipped z-score of the
\* raw value under the linear map of [-t, +t] onto [0, 1], t being the
\* configured threshold (3 by default): 0 for a z-score clipped at -t, 1 for
\* one clipped at +t, 0.5 for a value at the mean.
C20_ZscoreRemapped ==
    (NfDone /\ NfZscore) =>
        /\ nfResult.n = nfDf.n
        /\ DOMAIN nfResult.cols = DOMAIN nfDf.cols \cup {NormCol(f) : f \in NfPresent}
        /\ \A c \in DOMAIN nfDf.cols : nfResult.cols[c] = nfDf.cols[c]
        /\ \A f \in NfPresent : \A i \in 1..nfDf.n :
              LET x == nfDf.cols[f][i]
                  y == nfResult.cols[NormCol(f)][i]
                  d == FSub(x, NfMean(f))
              IN  /\ InUnit(y)
                  /\ IF i \notin NfFinite(f) THEN y = Plain(<<1, 2>>)
                     ELSE IF d = FZero THEN y = Plain(<<1, 2>>)
                     ELSE IF FLt(FMul(FMul(NfT, NfT), NfVariance(f)), FMul(d, d))
                          THEN y = Plain(IF d[1] > 0 THEN FOne ELSE FZero)
                     ELSE IsRemapOf(y, d, NfT, NfVariance(f))

---------------------------------------------------------------------------
(* check_feature_coverage                                                  *)

CovMaxDates == 3
\* the numbers of rows a date may have
GroupSizes == {0, 1, 2, 5}
CovThresholds == {<<19, 20>>, <<1, 2>>}

\* the row of ticker t on date d: the first k tickers of a date have derived
\* features (the odd ones sma_10 only), the others only their prices
CovRow(t, d, k) ==
    [ticker |-> t, date |-> d, close |-> <<10 + t, 1>>, volume |-> <<100, 1>>,
     sma_10 |-> IF t <= k THEN <<10, 1>> ELSE NaN,
     rsi_14 |-> IF t <= k /\ t % 2 = 0 THEN <<50, 1>> ELSE NaN]

RECURSIVE CovTable(_, _, _)
\* the table of dates m, m - 1, ..., 1 with sizes[d] rows on date d
CovTable(m, sizes, withf) ==
    IF m = 0 THEN <<>>
    ELSE [t \in 1..sizes[m] |-> CovRow(t, m, withf[m])] \o CovTable(m - 1, sizes, withf)

CovEmptyResult ==
    [by_date |-> <<>>, dates_meeting_threshold |-> 0, total_dates |-> 0,
     percentage_dates_meeting_threshold |-> FZero,
     average_coverage |-> <<FZero, 0>>, min_coverage |-> FZero, max_coverage |-> FZero]

CovIdle ==
    /\ covDf = <<>> /\ covThreshold = FZero /\ covResult = CovEmptyResult
    /\ covPc = "idle"

CovInit ==
    /\ \E m \in 0..CovMaxDates : \E sizes \in [1..m -> GroupSizes] :
       \E withf \in [1..m -> 0..5] :
          /\ \A d \in 1..m : withf[d] <= sizes[d]
          /\ covDf = CovTable(m, sizes, withf)
    /\ covThreshold \in CovThresholds
    /\ covResult = CovEmptyResult
    /\ covPc = "call"

\* lines 310-311: the columns that are not ticker, date or a price column
FeatureCols(df) ==
    UNION {DOMAIN df[i] : i \in DOMAIN df}
        \ {"ticker", "date", "open", "high", "low", "close", "volume"}

\* mutant: a row counts only if all its features are non-null
HasEveryFeature(row, feature_cols) == \A c \in feature_cols : ~IsNaN(row[c])

\* line 317: notna().any(axis=1) on one row
HasFeature(row, feature_cols) == \E c \in feature_cols : ~IsNaN(row[c])

\* lines 313-326: the statistics of one group of df.groupby('date')
CoverageStat(df, date, thr) ==
    LET group == {i \in DOMAIN df : df[i].date = date}
        total_tickers == Cardinality(group)
        tickers_with_features ==
            Cardinality({i \in group : HasFeature(df[i], FeatureCols(df))})
        coverage == IF total_tickers > 0 THEN Frac(tickers_with_features, total_tickers)
                    ELSE FZero
    IN  [date |-> date, total_tickers |-> total_tickers,
         tickers_with_features |-> tickers_with_features,
         coverage |-> coverage, meets_threshold |-> FLe(thr, coverage)]

\* the groups of df.groupby('date') come in ascending order of the date
GroupKeys(df) ==
    LET dates == {df[i].date : i \in DOMAIN df}
    IN  [j \in 1..Cardinality(dates) |->
            CHOOSE d \in dates : Cardinality({e \in dates : e < d}) = j - 1]

\* the rounding of coverage_df['coverage'].mean() on equal ratios, as the
\* sign of the computed mean minus the ratio: in binary64 0.2 + 0.2 + 0.2 is
\* 0.6000000000000001 and a third of it 0.20000000000000004; likewise three
\* times 0.4 and three times 0.8; the means of up to five equal ratios with
\* denominator 1, 2 or 5 are exact otherwise
CoverageMeanRounding(ratios) ==
    IF /\ Len(ratios) = 3
       /\ \A j \in DOMAIN ratios : ratios[j] = ratios[1]
       /\ ratios[1] \in {<<1, 5>>, <<2, 5>>, <<4, 5>>}
    THEN 1 ELSE 0

\* a computed mean is held as <<m, e>>: the exact mean m and the sign e of
\* the rounding error
CoverageMean(ratios) ==
    <<FDiv(XSum(ratios), <<Len(ratios), 1>>), CoverageMeanRounding(ratios)>>

\* lines 328-343
CoverageReport(df, thr) ==
    LET keys == GroupKeys(df)
        coverage_df == [j \in DOMAIN keys |-> CoverageStat(df, keys[j], thr)]
        ratios == [j \in DOMAIN keys |-> coverage_df[j].coverage]
        dates_meeting_threshold ==
            Cardinality({j \in DOMAIN keys : coverage_df[j].meets_threshold})
    IN  [by_date |-> coverage_df,
         dates_meeting_threshold |-> dates_meeting_threshold,
         total_dates |-> Len(coverage_df),
         percentage_dates_meeting_threshold |->
            IF Len(coverage_df) > 0 THEN Frac(dates_meeting_threshold, Len(coverage_df))
            ELSE FZero,
         average_coverage |->
            IF Len(coverage_df) > 0 THEN CoverageMean(ratios) ELSE <<FZero, 0>>,
         min_coverage |->
            IF Len(coverage_df) > 0 THEN MinOf(ratios, DOMAIN ratios) ELSE FZero,
         max_coverage |->
            IF Len(coverage_df) > 0 THEN MaxOf(ratios, DOMAIN ratios) ELSE FZero]

\* lines 291-301: the empty table
CheckCoverageEmpty ==
    /\ covPc = "call" /\ Len(covDf) = 0
    /\ covResult' = CovEmptyResult
    /\ covPc' = "returned"
    /\ UNCHANGED <<covDf, covThreshold>>
    /\ UNCHANGED covOthers

CheckCoverage ==
    /\ covPc = "call" /\ Len(covDf) # 0
    /\ covResult' = CoverageReport(covDf, covThreshold)
    /\ covPc' = "returned"
    /\ UNCHANGED <<covDf, covThreshold>>
    /\ UNCHANGED covOthers

CovNext == CheckCoverageEmpty \/ CheckCoverage

CovDone == covPc = "returned"
\* the rows of a date, and those of them with a non-null derived feature
CovRows(d) == {i \in DOMAIN covDf : covDf[i].date = d}
CovRowsWithFeatures(d) ==
    {i \in CovRows(d) : ~IsNaN(covDf[i].sma_10) \/ ~IsNaN(covDf[i].rsi_14)}
\* the report has one entry for every date of the table, each with the
\* counts, the ratio and the flag of its date
CovByDate ==
    /\ {covResult.by_date[j].date : j \in DOMAIN covResult.by_date}
           = {covDf[i].date : i \in DOMAIN covDf}
    /\ covResult.total_dates = Cardinality({covDf[i].date : i \in DOMAIN covDf})
    /\ Len(covResult.by_date) = covResult.total_dates
    /\ \A j \in DOMAIN covResult.by_date :
          LET e == covResult.by_date[j]
          IN  /\ e.total_tickers = Cardinality(CovRows(e.date))
              /\ e.tickers_with_features = Cardinality(CovRowsWithFeatures(e.date))
              /\ FEq(FMul(e.coverage, <<e.total_tickers, 1>>),
                     <<e.tickers_with_features, 1>>)
              /\ e.meets_threshold = FLe(covThreshold, e.coverage)
              /\ FLe(FZero, e.coverage) /\ FLe(e.coverage, FOne)
    /\ covResult.dates_meeting_threshold
           = Cardinality({j \in DOMAIN covResult.by_date :
                             covResult.by_date[j].meets_threshold})
    /\ covResult.dates_meeting_threshold <= covResult.total_dates

\* C21 as stated: the per-date report, and, as computed,
\* min_coverage <= average_coverage <= max_coverage.
C21_CoverageAsStated ==
    CovDone =>
        /\ CovByDate
        /\ \/ FLt(covResult.min_coverage, covResult.average_coverage[1])
           \/ /\ covResult.min_coverage = covResult.average_coverage[1]
              /\ covResult.average_coverage[2] >= 0
        /\ \/ FLt(covResult.average_coverage[1], covResult.max_coverage)
           \/ /\ covResult.max_coverage = covResult.average_coverage[1]
              /\ covResult.average_coverage[2] <= 0

\* C21, amended: for every date of the table the report gives the number
\* of its rows, the number of them with a non-null derived feature, their
\* ratio (between 0 and 1) and whether the ratio is at least the threshold;
\* dates_meeting_threshold counts the flagged dates and is at most
\* total_dates; min_coverage and max_coverage are the least and greatest
\* ratio, and average_coverage is their mean up to the rounding of the
\* floating-point sum: the exact mean lies between min and max.
C21_CoverageReport ==
    CovDone =>
        /\ CovByDate
        /\ \A j \in DOMAIN covResult.by_date :
              /\ FLe(covResult.min_coverage, covResult.by_date[j].coverage)
              /\ FLe(covResult.by_date[j].coverage, covResult.max_coverage)
        /\ FLe(covResult.min_coverage, covResult.average_coverage[1])
        /\ FLe(covResult.average_coverage[1], covResult.max_coverage)

\* C21 witness: three dates with 5, 2 and 1 rows, of which 2, 1 and 0 have
\* features; only the second date meets the threshold 1/2
C21_Witness ==
    /\ CovDone /\ covThreshold = <<1, 2>>
    /\ covResult.total_dates = 3
    /\ covResult.by_date[1].date = 1 /\ covResult.by_date[1].coverage = <<2, 5>>
    /\ covResult.by_date[2].coverage = <<1, 2>> /\ covResult.by_date[2].meets_threshold
    /\ covResult.by_date[3].coverage = FZero /\ ~covResult.by_date[3].meets_threshold
    /\ covResult.dates_meeting_threshold = 1

---------------------------------------------------------------------------
(* ScoringService.generate_explanations                                    *)

ExpMaxRows == 3

\* the scored table: a row per stock and date, the stock named in a column
\* 'symbol' or, as in the table of the feature pipeline, 'ticker'; the
\* tech_score of a row tells the rows apart
ExpRow(name_column, i, name, composite, rsi) ==
    IF name_column = "symbol"
    THEN [symbol |-> name, composite_score |-> composite, tech_score |-> <<i, 10>>,
          fund_score |-> FZero, norm_rsi_14 |-> rsi, norm_eps |-> NaN]
    ELSE [ticker |-> name, composite_score |-> composite, tech_score |-> <<i, 10>>,
          fund_score |-> FZero, norm_rsi_14 |-> rsi, norm_eps |-> NaN]

ExpTables ==
    UNION {{[i \in 1..n |-> ExpRow(name_column, i, names[i], composites[i], rsis[i])] :
               names \in [1..n -> {"AAA", "BBB"}],
               composites \in [1..n -> {<<1, 2>>, <<1, 1>>}],
               rsis \in [1..n -> {NaN, <<1, 2>>}]} :
           n \in 0..ExpMaxRows, name_column \in {"symbol", "ticker"}}

ExpIdle == expDf = <<>> /\ top_k = 0 /\ explanations = <<>> /\ expPc = "idle"

ExpInit ==
    /\ expDf \in ExpTables
    /\ top_k \in (0..ExpMaxRows) \cup {100}
    /\ explanations = <<>>
    /\ expPc = "call"

\* line 321: df.nlargest(top_k, 'composite_score'), as the positions of the
\* chosen rows in order: descending score, equal scores in table order
NLargest(df, k) ==
    LET before(i, j) ==
            \/ FLt(df[j].composite_score, df[i].composite_score)
            \/ df[j].composite_score = df[i].composite_score /\ i < j
        rank(i) == Cardinality({j \in DOMAIN df : before(j, i)})
        n == IF k < Len(df) THEN k ELSE Len(df)
    IN  [r \in 1..n |-> CHOOSE i \in DOMAIN df : rank(i) = r - 1]

\* lines 324-329: the normalized columns of the configured features that
\* the table has
AvailableFeatures(df) ==
    {"norm_rsi_14", "norm_eps"} \cap UNION {DOMAIN df[i] : i \in DOMAIN df}

\* line 333: row.get('symbol', 'Unknown')
SymbolOf(row) == IF "symbol" \in DOMAIN row THEN row.symbol ELSE "Unknown"

\* lines 336-350: the record of one row; the text is held as its parts
ExplanationOf(row, available_features) ==
    LET contributions ==
            [f \in {g \in available_features : ~IsNaN(row[g])} |-> row[f]]
    IN  [composite_score |-> row.composite_score,
         tech_score |-> row.tech_score,
         fund_score |-> row.fund_score,
         contributions |-> contributions,
         explanation |-> <<SymbolOf(row), row.composite_score, row.tech_score,
                           row.fund_score, contributions>>]

\* lines 331-350: explanations[symbol] = {...} for each row of top_df in
\* turn: a later row replaces the record an earlier row stored under the
\* same key
ExplanationsOf(df, k) ==
    LET top == NLargest(df, k)
        keys == {SymbolOf(df[top[r]]) : r \in DOMAIN top}
        last(key) == CHOOSE r \in DOMAIN top :
                        /\ SymbolOf(df[top[r]]) = key
                        /\ \A q \in DOMAIN top : SymbolOf(df[top[q]]) = key => q <= r
    IN  [key \in keys |-> ExplanationOf(df[top[last(key)]], AvailableFeatures(df))]

GenerateExplanations ==
    /\ expPc = "call"
    /\ explanations' = ExplanationsOf(expDf, top_k)
    /\ expPc' = "returned"
    /\ UNCHANGED <<expDf, top_k>>
    /\ UNCHANGED expOthers

ExpNext == GenerateExplanations

\* the ticker of a row, whichever column names it
ExpTicker(row) == IF "symbol" \in DOMAIN row THEN row.symbol ELSE row.ticker
\* the rows among the top_k by composite score: fewer than top_k rows score
\* higher or score the same and stand earlier
ExpSelected ==
    {i \in DOMAIN expDf :
        Cardinality({j \in DOMAIN expDf :
            \/ FLt(expDf[i].composite_score, expDf[j].composite_score)
            \/ expDf[i].composite_score = expDf[j].composite_score /\ j < i}) < top_k}

\* C23 as stated: the call returns min(K, number of rows) records, one for
\* each of the top-K rows by composite score, keyed by the row's ticker and
\* holding the row's own composite, technical and fundamental scores and
\* its non-missing normalized feature values.
C23_OneRecordPerTopRow ==
    expPc = "returned" =>
        /\ Cardinality(DOMAIN explanations)
              = (IF top_k < Len(expDf) THEN top_k ELSE Len(expDf))
        /\ \A i \in ExpSelected :
              /\ ExpTicker(expDf[i]) \in DOMAIN explanations
              /\ \E key \in DOMAIN explanations :
                    /\ explanations[key].composite_score = expDf[i].composite_score
                    /\ explanations[key].tech_score = expDf[i].tech_score
                    /\ explanations[key].fund_score = expDf[i].fund_score
                    /\ explanations[key].contributions
                         = [f \in {g \in {"norm_rsi_14", "norm_eps"} : ~IsNaN(expDf[i][g])}
                               |-> expDf[i][f]]

---------------------------------------------------------------------------
(* YFinanceIngestor: the TTL cache, _fetch_ticker_with_retry and fetch     *)

MaxFetches == 2
MaxClock == 2
MaxRetries == 3
IngMaxRetries == 1

\* symbols as the caller may write them, one character per element
RawSymbols == {<<"a">>, <<" ", "A", " ">>, <<"B">>}
\* the symbol lists of the requests
SymbolLists ==
    {<<<<"a">>>>, <<<<"B">>>>, <<<<" ", "A", " ">>, <<"B">>>>, <<<<"B">>, <<"a">>>>,
     <<<<"a">>, <<" ", "A", " ">>>>}
\* what one attempt meets at the provider: yf.Ticker raises; ticker.info is
\* a non-empty dict; ticker.info raises or is empty and ticker.fast_info
\* answers; ticker.info raises or is empty and ticker.fast_info raises
TickerOutcomes == {"ticker_raises", "info", "fast_info", "both_fail"}
Backoffs == {<<1, 1>>, <<1, 2>>}
Multipliers == {<<2, 1>>, <<3, 2>>}
TtlSeconds == {0, 1}

IngIdle ==
    /\ cache_ttl_seconds = 0 /\ max_retries = 0
    /\ initial_backoff = FZero /\ backoff_multiplier = FZero
    /\ cache = <<>> /\ clock = 0 /\ request = None /\ fetchPos = 0
    /\ tickers = <<>> /\ fetched_count = 0 /\ cached_count = 0
    /\ failed_count = 0 /\ response = None /\ fetched = <<>>
    /\ called = FALSE /\ retried = None /\ fetchCalls = 0 /\ ingPc = "off"

\* YFinanceIngestor(...) with the default backoff: the cache starts empty
IngInit ==
    /\ cache_ttl_seconds \in TtlSeconds
    /\ max_retries \in 0..IngMaxRetries
    /\ initial_backoff = <<1, 1>>
    /\ backoff_multiplier = <<2, 1>>
    /\ cache = <<>> /\ clock = 0 /\ request = None /\ fetchPos = 0
    /\ tickers = <<>> /\ fetched_count = 0 /\ cached_count = 0
    /\ failed_count = 0 /\ response = None /\ fetched = <<>>
    /\ called = FALSE /\ retried = None /\ fetchCalls = 0 /\ ingPc = "idle"

\* an ingestor whose retry loop is called on its own
RetryInit ==
    /\ cache_ttl_seconds = 300
    /\ max_retries \in 0..MaxRetries
    /\ initial_backoff \in Backoffs
    /\ backoff_multiplier \in Multipliers
    /\ cache = <<>> /\ clock = 0 /\ request = None /\ fetchPos = 0
    /\ tickers = <<>> /\ fetched_count = 0 /\ cached_count = 0
    /\ failed_count = 0 /\ response = None /\ fetched = <<>>
    /\ called = FALSE /\ retried = None /\ fetchCalls = 0 /\ ingPc = "retry"

\* str.upper and str.strip
UpperChar(c) == CASE c = "a" -> "A" [] c = "b" -> "B" [] OTHER -> c
Upper(s) == [i \in DOMAIN s |-> UpperChar(s[i])]
Strip(s) ==
    LET kept == {i \in DOMAIN s : s[i] # " "}
    IN  IF kept = {} THEN <<>>
        ELSE SubSeq(s, CHOOSE i \in kept : \A j \in kept : i <= j,
                       CHOOSE i \in kept : \A j \in kept : j <= i)
UpperOnly(symbol) == Upper(symbol)
\* symbol.upper().strip()
NormalizeSymbol(symbol) == Strip(Upper(symbol))

\* CacheEntry.is_expired
IsExpired(entry, time) == time - entry.timestamp > entry.ttl_seconds
\* the symbol has an entry that _get_from_cache returns
CacheHit(symbol) == symbol \in DOMAIN cache /\ ~IsExpired(cache[symbol], clock)
\* the cache as _get_from_cache leaves it: an expired entry is deleted
CacheAfterLookup(symbol) ==
    IF symbol \in DOMAIN cache /\ IsExpired(cache[symbol], clock)
    THEN [s \in DOMAIN cache \ {symbol} |-> cache[s]]
    ELSE cache
\* _store_in_cache
StoreInCache(entries, symbol, raw_data) ==
    [s \in DOMAIN entries \cup {symbol} |->
        IF s = symbol
        THEN [data |-> raw_data, timestamp |-> clock, ttl_seconds |-> cache_ttl_seconds]
        ELSE entries[s]]

\* the three TickerData that _fetch_ticker_with_retry builds
FullInfoTicker(symbol) ==
    [symbol |-> symbol, success |-> TRUE,
     raw_data |-> Some([symbol |-> symbol, source |-> "yfinance",
                        info |-> Some("info"), fetch_time |-> clock]),
     fast_info |-> None, error |-> None]
FastInfoTicker(symbol) ==
    [symbol |-> symbol, success |-> TRUE,
     raw_data |-> Some([symbol |-> symbol, source |-> "yfinance_fast_info",
                        info |-> None, fetch_time |-> clock]),
     fast_info |-> Some([symbol |-> symbol, last_price |-> "lastPrice"]),
     error |-> None]
FailedTicker(symbol, last_error) ==
    [symbol |-> symbol, success |-> FALSE, raw_data |-> None, fast_info |-> None,
     error |-> IF last_error = None THEN Some("Unknown error") ELSE last_error]

RECURSIVE TickerRetryLoop(_, _, _, _, _, _)
\* the for loop of _fetch_ticker_with_retry from the given attempt on; the
\* result holds the TickerData returned, the attempts made and the
\* arguments of the time.sleep calls in order
TickerRetryLoop(symbol, outcomes, attempt, backoff, last_error, sleeps) ==
    IF attempt >= max_retries
    THEN [ticker |-> FailedTicker(symbol, last_error), attempts |-> attempt,
          sleeps |-> sleeps, outcomes |-> SubSeq(outcomes, 1, attempt)]
    ELSE CASE outcomes[attempt + 1] = "info" ->
                [ticker |-> FullInfoTicker(symbol), attempts |-> attempt + 1,
                 sleeps |-> sleeps, outcomes |-> SubSeq(outcomes, 1, attempt + 1)]
           [] outcomes[attempt + 1] = "fast_info" ->
                [ticker |-> FastInfoTicker(symbol), attempts |-> attempt + 1,
                 sleeps |-> sleeps, outcomes |-> SubSeq(outcomes, 1, attempt + 1)]
           [] outcomes[attempt + 1] = "both_fail" ->
                TickerRetryLoop(symbol, outcomes, attempt + 1, backoff,
                    Some("Both info and fast_info failed"), sleeps)
           [] OTHER ->
                IF attempt < max_retries - 1
                THEN TickerRetryLoop(symbol, outcomes, attempt + 1,
                        FMul(backoff, backoff_multiplier), Some("Ticker error"),
                        Append(sleeps, backoff))
                ELSE TickerRetryLoop(symbol, outcomes, attempt + 1, backoff,
                        Some("Ticker error"), sleeps)

FetchTickerWithRetry(symbol, outcomes) ==
    TickerRetryLoop(symbol, outcomes, 0, initial_backoff, None, <<>>)

\* fetch: the history variable fetched holds, for every entry of the cache,
\* the TickerData that _fetch_ticker_with_retry returned when it was stored,
\* and called tells whether the last pass of the loop went to the provider
\* the symbol the loop is at
IngSymbol == NormalizeSymbol(request[1].symbols[fetchPos])
InLoop == ingPc = "loop" /\ fetchPos <= Len(request[1].symbols)

\* fetch is called: the counters and the list start empty
StartFetch ==
    /\ ingPc = "idle" /\ fetchCalls < MaxFetches
    /\ \E symbols \in SymbolLists, use_cache \in BOOLEAN :
          request' = Some([symbols |-> symbols, use_cache |-> use_cache])
    /\ fetchPos' = 1 /\ tickers' = <<>>
    /\ fetched_count' = 0 /\ cached_count' = 0 /\ failed_count' = 0
    /\ response' = None /\ called' = FALSE
    /\ fetchCalls' = fetchCalls + 1
    /\ ingPc' = "loop"
    /\ UNCHANGED <<cache_ttl_seconds, max_retries, initial_backoff, backoff_multiplier,
                   cache, clock, fetched, retried>>
    /\ UNCHANGED ingOthers

\* one pass of the loop: the cache is enabled and holds a live entry
ServeFromCache ==
    /\ InLoop /\ request[1].use_cache /\ CacheHit(IngSymbol)
    /\ tickers' = Append(tickers,
            [symbol |-> IngSymbol, success |-> TRUE,
             raw_data |-> Some(cache[IngSymbol].data), fast_info |-> None,
             error |-> None])
    /\ cached_count' = cached_count + 1
    /\ fetchPos' = fetchPos + 1
    /\ called' = FALSE
    /\ UNCHANGED <<cache_ttl_seconds, max_retries, initial_backoff, backoff_multiplier,
                   cache, clock, request, fetched_count, failed_count, response,
                   fetched, retried, fetchCalls, ingPc>>
    /\ UNCHANGED ingOthers

\* one pass of the loop that goes to the provider
FetchFromApi ==
    /\ InLoop /\ ~(request[1].use_cache /\ CacheHit(IngSymbol))
    /\ \E outcomes \in [1..max_retries -> TickerOutcomes] :
          LET run == FetchTickerWithRetry(IngSymbol, outcomes)
              looked == IF request[1].use_cache THEN CacheAfterLookup(IngSymbol) ELSE cache
              stores == run.ticker.success /\ request[1].use_cache
          IN  /\ called' = (run.attempts > 0)
              /\ tickers' = Append(tickers, run.ticker)
              /\ fetched_count' = IF run.ticker.success THEN fetched_count + 1 ELSE fetched_count
              /\ failed_count' = IF run.ticker.success THEN failed_count ELSE failed_count + 1
              /\ cache' = IF stores
                          THEN StoreInCache(looked, IngSymbol, run.ticker.raw_data[1])
                          ELSE looked
              /\ fetched' = [s \in DOMAIN cache' |->
                                IF s = IngSymbol /\ stores THEN run.ticker ELSE fetched[s]]
    /\ fetchPos' = fetchPos + 1
    /\ UNCHANGED <<cache_ttl_seconds, max_retries, initial_backoff, backoff_multiplier,
                   clock, request, cached_count, response, retried, fetchCalls, ingPc>>
    /\ UNCHANGED ingOthers

\* the loop is over: the IngestorResponse
ReturnResponse ==
    /\ ingPc = "loop" /\ fetchPos > Len(request[1].symbols)
    /\ response' = Some([tickers |-> tickers, fetched_count |-> fetched_count,
                         cached_count |-> cached_count, failed_count |-> failed_count])
    /\ ingPc' = "idle"
    /\ UNCHANGED <<cache_ttl_seconds, max_retries, initial_backoff, backoff_multiplier,
                   cache, clock, request, fetchPos, tickers, fetched_count,
                   cached_count, failed_count, fetched, called, retried, fetchCalls>>
    /\ UNCHANGED ingOthers

\* datetime.now() moves on by a second
Tick ==
    /\ ingPc \in {"idle", "loop"} /\ clock < MaxClock
    /\ clock' = clock + 1
    /\ UNCHANGED <<cache_ttl_seconds, max_retries, initial_backoff, backoff_multiplier,
                   cache, request, fetchPos, tickers, fetched_count, cached_count,
                   failed_count, response, fetched, called, retried, fetchCalls, ingPc>>
    /\ UNCHANGED ingOthers

IngNext == StartFetch \/ ServeFromCache \/ FetchFromApi \/ ReturnResponse \/ Tick

\* PriceIngestor._fetch_ohlcv_with_retry: what one attempt meets: a frame
\* with the five columns, a frame lacking one, an empty or missing frame,
\* an exception
OhlcvOutcomes == {"frame", "missing_columns", "empty", "raises"}
OhlcvError(outcome) ==
    CASE outcome = "missing_columns" -> "Missing required columns"
      [] outcome = "empty" -> "Empty or None DataFrame returned"
      [] OTHER -> "Ticker error"

RECURSIVE OhlcvRetryLoop(_, _, _, _, _)
\* the for loop of _fetch_ohlcv_with_retry from the given attempt on; error
\* is the line written to the failures log, None when nothing is written
OhlcvRetryLoop(outcomes, attempt, backoff, last_error, sleeps) ==
    IF attempt >= max_retries
    THEN [result |-> None, error |-> Some(last_error), attempts |-> attempt,
          sleeps |-> sleeps, outcomes |-> SubSeq(outcomes, 1, attempt)]
    ELSE IF outcomes[attempt + 1] = "frame"
         THEN [result |-> Some("df"), error |-> None, attempts |-> attempt + 1,
               sleeps |-> sleeps, outcomes |-> SubSeq(outcomes, 1, attempt + 1)]
         ELSE IF attempt < max_retries - 1
              THEN OhlcvRetryLoop(outcomes, attempt + 1,
                      FMul(backoff, backoff_multiplier),
                      Some(OhlcvError(outcomes[attempt + 1])), Append(sleeps, backoff))
              ELSE OhlcvRetryLoop(outcomes, attempt + 1, backoff,
                      Some(OhlcvError(outcomes[attempt + 1])), sleeps)

FetchOhlcvWithRetry(outcomes) ==
    OhlcvRetryLoop(outcomes, 0, initial_backoff, None, <<>>)

IngUnchangedByRetry ==
    UNCHANGED <<cache_ttl_seconds, max_retries, initial_backoff, backoff_multiplier,
                cache, clock, request, fetchPos, tickers, fetched_count,
                cached_count, failed_count, response, fetched, called, fetchCalls>>

\* _fetch_ticker_with_retry called on its own
CallFetchTickerWithRetry ==
    /\ ingPc = "retry"
    /\ \E outcomes \in [1..max_retries -> TickerOutcomes] :
          LET run == FetchTickerWithRetry(<<"A">>, outcomes)
          IN  retried' = Some([loop |-> "ticker", success |-> run.ticker.success,
                               error |-> run.ticker.error, attempts |-> run.attempts,
                               sleeps |-> run.sleeps, outcomes |-> run.outcomes])
    /\ ingPc' = "retried"
    /\ IngUnchangedByRetry
    /\ UNCHANGED ingOthers

\* _fetch_ohlcv_with_retry called on its own
CallFetchOhlcvWithRetry ==
    /\ ingPc = "retry"
    /\ \E outcomes \in [1..max_retries -> OhlcvOutcomes] :
          LET run == FetchOhlcvWithRetry(outcomes)
          IN  retried' = Some([loop |-> "ohlcv", success |-> run.result # None,
                               error |-> run.error, attempts |-> run.attempts,
                               sleeps |-> run.sleeps, outcomes |-> run.outcomes])
    /\ ingPc' = "retried"
    /\ IngUnchangedByRetry
    /\ UNCHANGED ingOthers

RetryNext == CallFetchTickerWithRetry \/ CallFetchOhlcvWithRetry

\* s is raw without its outer blanks and with every letter in upper case
IsNormalOf(s, raw) ==
    /\ \A k \in DOMAIN s : s[k] \notin {"a", "b"}
    /\ s # <<>> => s[1] # " " /\ s[Len(s)] # " "
    /\ \E lo \in 1..Len(raw) + 1 :
          /\ \A k \in DOMAIN raw : (k < lo \/ k >= lo + Len(s)) => raw[k] = " "
          /\ lo + Len(s) - 1 <= Len(raw)
          /\ \A k \in DOMAIN s :
                \/ s[k] = raw[lo + k - 1]
                \/ <<raw[lo + k - 1], s[k]>> \in {<<"a", "A">>, <<"b", "B">>}

\* C25: the response of fetch holds one TickerData per requested symbol, in
\* the order of the request and under the symbol in upper case without outer
\* blanks; the three counts add up to the number of requested symbols, and
\* failed_count is the number of entries whose success is false.
C25_OnePerSymbol ==
    response # None =>
        LET r == response[1]
            symbols == request[1].symbols
        IN  /\ Len(r.tickers) = Len(symbols)
            /\ \A i \in DOMAIN symbols : IsNormalOf(r.tickers[i].symbol, symbols[i])
            /\ r.fetched_count + r.cached_count + r.failed_count = Len(symbols)
            /\ r.failed_count = Cardinality({i \in DOMAIN r.tickers : ~r.tickers[i].success})
            /\ r.fetched_count >= 0 /\ r.cached_count >= 0

\* C25 witness: the request " A ", "B" is answered with A from the cache and
\* a failure for B
C25_Witness ==
    /\ response # None
    /\ request[1].symbols = <<<<" ", "A", " ">>, <<"B">>>>
    /\ response[1].cached_count = 1 /\ response[1].failed_count = 1
    /\ response[1].tickers[1].symbol = <<"A">> /\ response[1].tickers[1].success
    /\ response[1].tickers[2].symbol = <<"B">> /\ ~response[1].tickers[2].success

\* the cache holds an entry for the symbol that is no older than its TTL
LiveEntry(symbol) ==
    symbol \in DOMAIN cache /\ clock - cache[symbol].timestamp <= cache[symbol].ttl_seconds

\* C26: a pass of the loop of fetch over a symbol: with use_cache and an entry
\* within its TTL the provider is not called, the cache is left alone and the
\* TickerData appended is the one the original fetch returned; with use_cache
\* and an entry past its TTL the entry is removed and the symbol is fetched
\* again; with use_cache and a successful fetch the symbol has a fresh entry
\* afterwards; without use_cache the cache is neither read nor written.
C26_CacheServesSameData ==
    [][(InLoop /\ fetchPos' = fetchPos + 1) =>
        /\ (request[1].use_cache /\ LiveEntry(IngSymbol)) =>
              /\ ~called' /\ cache' = cache
              /\ tickers' = Append(tickers, fetched[IngSymbol])
        /\ (request[1].use_cache /\ ~LiveEntry(IngSymbol)) =>
              /\ called' = (max_retries > 0)
              /\ IF tickers'[fetchPos].success
                 THEN /\ IngSymbol \in DOMAIN cache'
                      /\ cache'[IngSymbol].timestamp = clock
                      /\ Some(cache'[IngSymbol].data) = tickers'[fetchPos].raw_data
                 ELSE IngSymbol \notin DOMAIN cache'
        /\ ~request[1].use_cache =>
              /\ cache' = cache
              /\ called' = (max_retries > 0)]_vars

RECURSIVE Power(_, _)
Power(base, n) == IF n = 0 THEN FOne ELSE FMul(base, Power(base, n - 1))

\* C30: a run of either retry loop makes at most max_retries attempts and
\* stops at the first success; it sleeps after every failed attempt but the
\* last one allowed, the i-th sleep lasting initial_backoff *
\* backoff_multiplier^(i-1), so max_retries - 1 times when every attempt
\* fails; after max_retries failures it returns a failure with an error.
C30_RetryBackoff ==
    retried # None =>
        LET run == retried[1]
            failures == {i \in DOMAIN run.outcomes :
                            run.outcomes[i] \notin {"info", "fast_info", "frame"}}
        IN  /\ run.attempts <= max_retries
            /\ run.attempts = Len(run.outcomes)
            /\ run.success <=> failures # DOMAIN run.outcomes
            /\ run.success => failures = 1..(run.attempts - 1)
            /\ ~run.success => /\ run.attempts = max_retries
                               /\ run.error # None
            /\ Len(run.sleeps) = Cardinality(failures \ {max_retries})
            /\ \A i \in DOMAIN run.sleeps :
                  run.sleeps[i] = FMul(initial_backoff, Power(backoff_multiplier, i - 1))

---------------------------------------------------------------------------
(* Specifications: one per operation, the others idle *)

Init == PmInit /\ CwsIdle /\ TopIdle /\ FiltIdle /\ SvcIdle /\ CaIdle /\ MdIdle /\ IndIdle /\ NgfIdle /\ NormIdle /\ NfIdle /\ CovIdle /\ ExpIdle /\ IngIdle
Next == PmNext
Spec == Init /\ [][Next]_vars

InitWeighted == CwsInit /\ PmIdle /\ TopIdle /\ FiltIdle /\ SvcIdle /\ CaIdle /\ MdIdle /\ IndIdle /\ NgfIdle /\ NormIdle /\ NfIdle /\ CovIdle /\ ExpIdle /\ IngIdle
SpecWeighted == InitWeighted /\ [][CwsNext]_vars

InitTopK == TopInit /\ PmIdle /\ CwsIdle /\ FiltIdle /\ SvcIdle /\ CaIdle /\ MdIdle /\ IndIdle /\ NgfIdle /\ NormIdle /\ NfIdle /\ CovIdle /\ ExpIdle /\ IngIdle
SpecTopK == InitTopK /\ [][TopNext]_vars

InitFilters == FiltInit /\ PmIdle /\ CwsIdle /\ TopIdle /\ SvcIdle /\ CaIdle /\ MdIdle /\ IndIdle /\ NgfIdle /\ NormIdle /\ NfIdle /\ CovIdle /\ ExpIdle /\ IngIdle
SpecFilters == InitFilters /\ [][FiltNext]_vars

InitService == SvcInit /\ PmIdle /\ CwsIdle /\ TopIdle /\ FiltIdle /\ CaIdle /\ MdIdle /\ IndIdle /\ NgfIdle /\ NormIdle /\ NfIdle /\ CovIdle /\ ExpIdle /\ IngIdle
SpecService == InitService /\ [][SvcNext]_vars

InitCorporate == CaInit /\ PmIdle /\ CwsIdle /\ TopIdle /\ FiltIdle /\ SvcIdle /\ MdIdle /\ IndIdle /\ NgfIdle /\ NormIdle /\ NfIdle /\ CovIdle /\ ExpIdle /\ IngIdle
SpecCorporate == InitCorporate /\ [][CaNext]_vars

InitMissing == MdInit /\ PmIdle /\ CwsIdle /\ TopIdle /\ FiltIdle /\ SvcIdle /\ CaIdle /\ IndIdle /\ NgfIdle /\ NormIdle /\ NfIdle /\ CovIdle /\ ExpIdle /\ IngIdle
SpecMissing == InitMissing /\ [][MdNext]_vars

InitIndicators ==
    IndInit /\ PmIdle /\ CwsIdle /\ TopIdle /\ FiltIdle /\ SvcIdle /\ CaIdle /\ MdIdle /\ NgfIdle /\ NormIdle /\ NfIdle /\ CovIdle /\ ExpIdle /\ IngIdle
SpecIndicators == InitIndicators /\ [][IndNext]_vars

InitFeatures ==
    NgfInit /\ PmIdle /\ CwsIdle /\ TopIdle /\ FiltIdle /\ SvcIdle /\ CaIdle /\ MdIdle /\ IndIdle /\ NormIdle /\ NfIdle /\ CovIdle /\ ExpIdle /\ IngIdle
SpecFeatures == InitFeatures /\ [][NgfNext]_vars

InitNormalize ==
    NormInit /\ PmIdle /\ CwsIdle /\ TopIdle /\ FiltIdle /\ SvcIdle /\ CaIdle /\ MdIdle /\ IndIdle
    /\ NgfIdle /\ NfIdle /\ CovIdle /\ ExpIdle /\ IngIdle
SpecNormalize == InitNormalize /\ [][NormNext]_vars

InitNormalizeFeatures ==
    NfInit /\ PmIdle /\ CwsIdle /\ TopIdle /\ FiltIdle /\ SvcIdle /\ CaIdle /\ MdIdle /\ IndIdle
    /\ NgfIdle /\ NormIdle /\ CovIdle /\ ExpIdle /\ IngIdle
SpecNormalizeFeatures == InitNormalizeFeatures /\ [][NfNext]_vars

InitCoverage ==
    CovInit /\ PmIdle /\ CwsIdle /\ TopIdle /\ FiltIdle /\ SvcIdle /\ CaIdle /\ MdIdle /\ IndIdle
    /\ NgfIdle /\ NormIdle /\ NfIdle /\ ExpIdle /\ IngIdle
SpecCoverage == InitCoverage /\ [][CovNext]_vars

InitExplanations ==
    ExpInit /\ PmIdle /\ CwsIdle /\ TopIdle /\ FiltIdle /\ SvcIdle /\ CaIdle /\ MdIdle /\ IndIdle
    /\ NgfIdle /\ NormIdle /\ NfIdle /\ CovIdle /\ IngIdle
SpecExplanations == InitExplanations /\ [][ExpNext]_vars

InitIngestor ==
    IngInit /\ PmIdle /\ CwsIdle /\ TopIdle /\ FiltIdle /\ SvcIdle /\ CaIdle /\ MdIdle /\ IndIdle
    /\ NgfIdle /\ NormIdle /\ NfIdle /\ CovIdle /\ ExpIdle
SpecIngestor == InitIngestor /\ [][IngNext]_vars

InitRetry ==
    RetryInit /\ PmIdle /\ CwsIdle /\ TopIdle /\ FiltIdle /\ SvcIdle /\ CaIdle /\ MdIdle /\ IndIdle
    /\ NgfIdle /\ NormIdle /\ NfIdle /\ CovIdle /\ ExpIdle
SpecRetry == InitRetry /\ [][RetryNext]_vars

====
